---- MODULE Spec2Model ----
(***************************************************************************)
(* Model of the Tale-NG soul parser (tale_ng/soul/parse.py) and of the     *)
(* small world model it reads (tale_ng/objects.py).                        *)
(*                                                                         *)
(* A command line is modelled after whitespace splitting: a sequence of    *)
(* words plus the quoted message that the regex cuts out of the raw text.  *)
(* The character-level echo field `unparsed` is not part of the model.     *)
(* Words carry no trailing commas, so word.rstrip(",") is the identity.    *)
(*                                                                         *)
(* The module also models the message bus of tale_ng/pubsub.py: the Bus    *)
(* with its lock and topic table, the Topic objects, the threads that call *)
(* the Bus, and the listeners with the invocations they receive.           *)
(***************************************************************************)
EXTENDS Integers, Sequences, FiniteSets, TLC

VARIABLES location, livings, items, exits, previously_parsed, call, outcome,
          bus, heap, threads, alive, delivered, log

vars == <<location, livings, items, exits, previously_parsed, call, outcome,
          bus, heap, threads, alive, delivered, log>>
world == <<location, livings, items, exits>>
\* the state of the soul and its world, the state of the bus and its callers
soul == <<location, livings, items, exits, previously_parsed, call, outcome>>
pubsub == <<bus, heap, threads, alive, delivered, log>>

(***************************************************************************)
(* Bounds                                                                  *)
(***************************************************************************)
\* words after the verb in the lines of the world-changing specification
MaxWords == 2
\* words after the verb in the lines of the single-call specification
MaxMentions == 3
\* words after the verb in the lines of the repeated-mention specification
MaxRepeats == 5
\* words of a line, verb included, in the verb-resolution specification
MaxVerbWords == 3
\* words after the verb in the lines of the rendering specification
MaxTargets == 2
\* tokens of a line, and of a pool name, in the name-matching specification
MaxTokens == 6
\* referents of the remembered result in the pronoun specification
MaxRemembered == 2
\* words after the verb in the lines of the pronoun specification
MaxPronouns == 2
\* words after the verb in the lines of the adverb specification
MaxAdverbWords == 3
\* words after the verb in the lines of the body-part specification
MaxBodyWords == 3
\* referents of the who_list, and of the who_info, a ParseResult is constructed from
MaxListed == 4
MaxSupplied == 2

(***************************************************************************)
(* The objects of the world (objects.py)                                   *)
(***************************************************************************)
None == "None"
Player == "julie"
Livings == {"julie", "kate", "dino"}
Items == {"newspaper"}
Exits == {"south"}
Objects == Livings \cup Items \cup Exits
Rooms == {"limbo", "room"}

\* MudObject.__init__: name, aliases, gender of each object
Name(o) == IF o = "dino" THEN "dinosaur" ELSE o
Aliases(o) == IF o = "newspaper" THEN {"paper"} ELSE {}
Gender(o) == IF o \in {"julie", "kate"} THEN "f" ELSE "n"

\* lang.OBJECTIVE / lang.SUBJECTIVE, as MudObject.__init__ reads them
Objective(o) == CASE Gender(o) = "f" -> "her" [] Gender(o) = "m" -> "him" [] OTHER -> "it"
Subjective(o) == CASE Gender(o) = "f" -> "she" [] Gender(o) = "m" -> "he" [] OTHER -> "it"

\* MudObject.__init__: self.title = title or name (no object is given a title)
Title(o) == Name(o)
\* lang.POSSESSIVE, as MudObject.__init__ reads it
Possessive(o) == CASE Gender(o) = "f" -> "her" [] Gender(o) = "m" -> "his" [] OTHER -> "its"
\* lang.possessive: the possessive form of a title
lang_possessive(title) == title \o "'s"

\* Living.inventory: the private set has no mutator, it stays empty
Inventory(l) == {}

\* Living.search_item: the body is `pass`, every call returns None
search_item(l, name) == None

(***************************************************************************)
(* Sequence helpers                                                        *)
(***************************************************************************)
Range(s) == {s[i] : i \in 1..Len(s)}
Contains(s, x) == \E i \in 1..Len(s) : s[i] = x
FirstIndex(s, x) == CHOOSE i \in 1..Len(s) : s[i] = x /\ \A j \in 1..(i - 1) : s[j] # x
\* list.remove(x): drops the first occurrence only
RemoveFirst(s, x) ==
    LET k == FirstIndex(s, x)
    IN  SubSeq(s, 1, k - 1) \o SubSeq(s, k + 1, Len(s))
\* all orderings of a finite set, the possible iteration orders of a Python set
Perms(S) == {p \in [1..Cardinality(S) -> S] : \A i, j \in 1..Cardinality(S) : p[i] = p[j] => i = j}
SeqsUpTo(S, n) == UNION {[1..k -> S] : k \in 0..n}

(***************************************************************************)
(* The word tables of tale_ng/soul/verbs.py, adverbs.py and of the parser  *)
(***************************************************************************)
\* verbs.VERBS: the verb names with their shape tag
VERBS == {"smile", "say", "touch", "kick", "pat", "wave", "fear", "watch", "peer", "ayt"}
VerbType(v) ==
    CASE v = "smile" -> "DEFA" [] v = "say" -> "SIMP" [] v = "touch" -> "DEUX"
      [] v = "kick" -> "PREV" [] v = "pat" -> "PHYS" [] v = "wave" -> "SHRT"
      [] v = "fear" -> "PERS" [] OTHER -> "QUAD"
\* len(verbdata) for verbdata = VERBS[verb]
VerbLen(v) ==
    CASE VerbType(v) \in {"PREV", "PHYS", "SHRT", "SIMP"} -> 3
      [] VerbType(v) \in {"DEFA", "PERS", "DEUX"} -> 4
      [] OTHER -> 6
\* the placeholders of the template string verbdata[slot]
VerbData(v, slot) ==
    CASE v = "say" /\ slot = 2 -> {"HOW", "WHAT"}
      [] v = "touch" /\ slot \in {2, 3} -> {"WHO", "HOW", "WHERE"}
      [] v = "fear" /\ slot = 2 -> {"HOW"}
      [] v = "fear" /\ slot = 3 -> {"WHO", "HOW"}
      [] v = "watch" /\ slot \in {2, 3} -> {"HOW"}
      [] v = "watch" /\ slot \in {4, 5} -> {"WHO", "HOW"}
      [] v = "peer" /\ slot \in {2, 3} -> {"POSS", "HOW"}
      [] v = "peer" /\ slot \in {4, 5} -> {"WHO", "HOW"}
      [] v = "ayt" /\ slot \in {2, 3} -> {"IS", "SUBJ", "HOW"}
      [] v = "ayt" /\ slot \in {4, 5} -> {"POSS", "IS", "SUBJ", "HOW"}
      [] OTHER -> {}
\* "\nMSG" in verbdata or "\nWHAT" in verbdata, for verbdata = VERBS[verb][2]
VerbWantsMessage(v) == "MSG" \in VerbData(v, 2) \/ "WHAT" \in VerbData(v, 2)
ACTION_QUALIFIERS == {"fail", "dont", "don't"}
BODY_PARTS == {"knee", "head"}
MOVEMENT_VERBS == {"go", "crawl"}
ADVERBS == <<"sickly", "sideways", "happily", "kindly">>
\* Soul._skip_words
skip_words == {"and", "&", "at", "to", "before", "in", "into", "on", "off", "onto",
               "the", "with", "from", "after", "under", "above", "next"}

\* str.startswith over the words of the model: the proper prefixes in use
ProperPrefixes == {<<"dinosaur", "dino">>, <<"newspaper", "news">>, <<"kate", "ka">>,
                   <<"sickly", "sic">>, <<"sickly", "si">>, <<"sideways", "si">>,
                   <<"happily", "hap">>, <<"kindly", "k">>, <<"kate", "k">>}
startswith(name, word) == name = word \/ <<name, word>> \in ProperPrefixes

\* adverbs.search_prefix: the adverbs starting with the word, in catalog order
search_prefix(word) == SelectSeq(ADVERBS, LAMBDA a : startswith(a, word))

(***************************************************************************)
(* ParseResult and its WhoInfo                                             *)
(***************************************************************************)
\* ParseResult.WhoInfo.__init__ (with the referent it is filed under)
WhoInfo(who, seqnr) == [who |-> who, sequence |-> seqnr, previous_word |-> ""]

\* the keys of an ordered who-map, in order
Keys(who_info) == [i \in 1..Len(who_info) |-> who_info[i].who]
InWho(who_info, who) == \E i \in 1..Len(who_info) : who_info[i].who = who
Info(who_info, who) == who_info[CHOOSE i \in 1..Len(who_info) : who_info[i].who = who]

\* who_info[who] = WhoInfo(seq): replaces the value in place or appends a new key
Assign(who_info, who, seqnr) ==
    IF InWho(who_info, who)
    THEN [i \in 1..Len(who_info) |->
            IF who_info[i].who = who THEN WhoInfo(who, seqnr) ELSE who_info[i]]
    ELSE Append(who_info, WhoInfo(who, seqnr))

\* a re-mention that files the referent anew at the end of the map
MentionMoved(who_info, who, seqnr, prev) ==
    Append(SelectSeq(who_info, LAMBDA e : e.who # who),
           [who |-> who, sequence |-> seqnr, previous_word |-> prev])

\* who_info[who].sequence = seq; who_info[who].previous_word = prev
\* (the defaultdict files a fresh WhoInfo at the end when the key is new)
Mention(who_info, who, seqnr, prev) ==
    LET filed == IF InWho(who_info, who) THEN who_info ELSE Append(who_info, WhoInfo(who, 0))
    IN  [i \in 1..Len(filed) |->
            IF filed[i].who = who
            THEN [who |-> who, sequence |-> seqnr, previous_word |-> prev]
            ELSE filed[i]]

\* del who_info[who]
Delete(who_info, who) == SelectSeq(who_info, LAMBDA e : e.who # who)

RECURSIVE FromList(_, _, _)
\* the enumerate(who_list) loop of ParseResult.__init__
FromList(who_list, i, acc) ==
    IF i > Len(who_list) THEN acc
    ELSE FromList(who_list, i + 1, Assign(acc, who_list[i], i - 1))

\* a duplicates set that only holds referents listed twice in a row
DuplicatesAdjacent(who_list) ==
    {who_list[i] : i \in {j \in 2..Len(who_list) : who_list[j - 1] = who_list[j]}}

\* the duplicates set of ParseResult.__init__
Duplicates(who_list) ==
    {who_list[i] : i \in {j \in 1..Len(who_list) : \E k \in 1..(j - 1) : who_list[k] = who_list[j]}}

Fields(verb, adverb, message, bodypart, qualifier, args, unrecognized, who_info) ==
    [verb |-> verb, adverb |-> adverb, message |-> message, bodypart |-> bodypart,
     qualifier |-> qualifier, args |-> args, unrecognized |-> unrecognized,
     who_info |-> who_info, who_count |-> Len(who_info)]

\* ParseResult(""), the value of a fresh Soul's memory
EmptyResult == Fields("", "", "", "", "", <<>>, <<>>, <<>>)

\* outcomes of a call: a returned value or a raised error
Returned(parsed) ==
    [kind |-> "ok", msg |-> <<>>, parsed |-> parsed, targets |-> {}, words |-> <<>>, qualifier |-> ""]
Raised(kind, msg) ==
    [kind |-> kind, msg |-> msg, parsed |-> EmptyResult, targets |-> {}, words |-> <<>>, qualifier |-> ""]
Idle == Raised("idle", <<>>)
\* ParseError and the other exceptions that carry only a message
ParseError(msg) == Raised("ParseError", msg)
\* NonSoulVerbError.__init__
NonSoulVerbError(parsed) == [Raised("NonSoulVerbError", <<parsed.verb>>) EXCEPT !.parsed = parsed]
\* UnknownVerbError.__init__
UnknownVerbError(verb, words, qualifier) ==
    [Raised("UnknownVerbError", <<verb>>) EXCEPT !.words = words, !.qualifier = qualifier]

\* ParseResult.__init__: the outcome of constructing a result
NewParseResult(verb, adverb, message, bodypart, qualifier, args, unrecognized, who_info, who_list) ==
    IF who_list # <<>> /\ who_info = <<>>
    THEN IF Duplicates(who_list) # {}
         THEN ParseError(<<"You can do only one thing at the same time with">>)
         ELSE Returned(Fields(verb, adverb, message, bodypart, qualifier, args, unrecognized,
                              FromList(who_list, 1, <<>>)))
    ELSE Returned(Fields(verb, adverb, message, bodypart, qualifier, args, unrecognized, who_info))

\* ParseResult.who_1
who_1(parsed) == IF parsed.who_info # <<>> THEN Keys(parsed.who_info)[1] ELSE None
\* ParseResult.who_12: (whos + [None, None])[:2]
who_12(parsed) == SubSeq(Keys(parsed.who_info) \o <<None, None>>, 1, 2)
\* the first three referents without the padding
who_123_unpadded(parsed) ==
    SubSeq(Keys(parsed.who_info), 1, IF Len(parsed.who_info) < 3 THEN Len(parsed.who_info) ELSE 3)
\* ParseResult.who_123: (whos + [None, None, None])[:3]
who_123(parsed) == SubSeq(Keys(parsed.who_info) \o <<None, None, None>>, 1, 3)
\* ParseResult.who_last
who_last(parsed) ==
    IF parsed.who_info # <<>> THEN Keys(parsed.who_info)[Len(parsed.who_info)] ELSE None

(***************************************************************************)
(* Soul.check_name_with_spaces                                             *)
(***************************************************************************)
NoPool == <<>>
NoMatch == [obj |-> None, name |-> "", wordcount |-> 0]

RECURSIVE TryNameItemsFirst(_, _, _, _, _, _, _)
\* the loop with the item pool consulted before the actor pool
TryNameItemsFirst(words, startindex, name, wordcount, all_livings, all_items, all_exits) ==
    IF wordcount < 6
    THEN IF name \in DOMAIN all_items
         THEN [obj |-> all_items[name], name |-> name, wordcount |-> wordcount]
         ELSE IF name \in DOMAIN all_livings
         THEN [obj |-> all_livings[name], name |-> name, wordcount |-> wordcount]
         ELSE IF name \in DOMAIN all_exits
         THEN [obj |-> all_exits[name], name |-> name, wordcount |-> wordcount]
         ELSE IF startindex + wordcount > Len(words)
         THEN NoMatch
         ELSE TryNameItemsFirst(words, startindex, name \o " " \o words[startindex + wordcount],
                                wordcount + 1, all_livings, all_items, all_exits)
    ELSE NoMatch

RECURSIVE TryName(_, _, _, _, _, _, _)
\* the while loop: test the name in the three pools, then extend it by one word
TryName(words, startindex, name, wordcount, all_livings, all_items, all_exits) ==
    IF wordcount < 6
    THEN IF name \in DOMAIN all_livings
         THEN [obj |-> all_livings[name], name |-> name, wordcount |-> wordcount]
         ELSE IF name \in DOMAIN all_items
         THEN [obj |-> all_items[name], name |-> name, wordcount |-> wordcount]
         ELSE IF name \in DOMAIN all_exits
         THEN [obj |-> all_exits[name], name |-> name, wordcount |-> wordcount]
         ELSE IF startindex + wordcount > Len(words)
         THEN NoMatch
         ELSE TryName(words, startindex, name \o " " \o words[startindex + wordcount],
                      wordcount + 1, all_livings, all_items, all_exits)
    ELSE NoMatch

\* startindex counts from 1 here
check_name_with_spaces(words, startindex, all_livings, all_items, all_exits) ==
    TryName(words, startindex, words[startindex], 1, all_livings, all_items, all_exits)

(***************************************************************************)
(* Soul.match_previously_parsed                                            *)
(***************************************************************************)
\* what one call reads of the world and of the soul: the player's room
\* (livings in iteration order lorder, items in iteration order iorder,
\* exit table) and the remembered result
Snapshot(player, lorder, iorder) ==
    [player |-> player,
     livings |-> livings[location[player]],
     lorder |-> lorder,
     iorder |-> iorder,
     exits |-> exits[location[player]],
     mem |-> previously_parsed]

\* a referent that counts as present wherever it is
AroundAlways(c, who) == TRUE

\* player.search_item(who.name) or who in player.location.livings
Around(c, who) == search_item(c.player, Name(who)) # None \/ who \in c.livings

Matched(matches) == [ok |-> TRUE, matches |-> matches, error |-> Idle]
NoLongerAround(who) ==
    [ok |-> FALSE, matches |-> <<>>, error |-> ParseError(<<"is no longer around", Subjective(who)>>)]
NotClear ==
    [ok |-> FALSE, matches |-> <<>>,
     error |-> ParseError(<<"It is not clear who or what you're referring to.">>)]

\* the direction under which an exit is filed in the room's exit table
DirectionOf(c, who) == CHOOSE d \in DOMAIN c.exits : c.exits[d] = who
IsExitHere(c, who) == \E d \in DOMAIN c.exits : c.exits[d] = who

RECURSIVE ScanPrevious(_, _, _)
\* the loop over the remembered who-map for "him", "her" and "it"
ScanPrevious(c, pronoun, i) ==
    IF i > Len(c.mem.who_info) THEN NotClear
    ELSE LET who == c.mem.who_info[i].who
         IN  IF pronoun = "it" /\ IsExitHere(c, who)
             THEN Matched(<<<<who, DirectionOf(c, who)>>>>)
             ELSE IF pronoun = Objective(who)
             THEN IF Around(c, who)
                  THEN Matched(<<<<who, Name(who)>>>>)
                  ELSE NoLongerAround(who)
             ELSE ScanPrevious(c, pronoun, i + 1)

match_previously_parsed(c, pronoun) ==
    IF pronoun = "them"
    THEN LET matches == Keys(c.mem.who_info)
             gone == {i \in 1..Len(matches) : ~Around(c, matches[i])}
         IN  IF gone # {}
             THEN NoLongerAround(matches[CHOOSE i \in gone : \A j \in gone : i <= j])
             ELSE IF matches # <<>>
             THEN Matched([i \in 1..Len(matches) |-> <<matches[i], Name(matches[i])>>])
             ELSE NotClear
    ELSE ScanPrevious(c, pronoun, 1)

(***************************************************************************)
(* Soul.parse: the candidate name pools                                    *)
(***************************************************************************)
\* the aliases of an object in iteration order
AliasSeq(o) == CHOOSE p \in Perms(Aliases(o)) : TRUE

RECURSIVE NamePairs(_, _)
\* the (name, object) insertions of the dictionary-filling loops, in order
NamePairs(objs, i) ==
    IF i > Len(objs) THEN <<>>
    ELSE <<<<Name(objs[i]), objs[i]>>>>
          \o [k \in 1..Len(AliasSeq(objs[i])) |-> <<AliasSeq(objs[i])[k], objs[i]>>]
          \o NamePairs(objs, i + 1)

\* the dictionary after the insertions: a later insertion overwrites an earlier one
Pool(pairs) ==
    [n \in {pairs[i][1] : i \in 1..Len(pairs)} |->
        pairs[CHOOSE i \in 1..Len(pairs) :
                 pairs[i][1] = n /\ \A j \in (i + 1)..Len(pairs) : pairs[j][1] # n][2]]

\* the first key, in insertion order, that starts with the word ("" when none does)
FirstStartingWith(pairs, word) ==
    LET hits == {i \in 1..Len(pairs) : startswith(pairs[i][1], word)}
    IN  IF hits = {} THEN "" ELSE pairs[CHOOSE i \in hits : \A j \in hits : i <= j][1]

(***************************************************************************)
(* Soul.parse: the loop over the words after the verb                      *)
(***************************************************************************)
Pronouns == {"them", "him", "her", "it"}
SelfWords == {"me", "myself", "self"}
AllWords == {"everyone", "everybody", "all"}
ExceptWords == {"except", "but"}

\* the local variables of parse() that the loop updates
LoopStart(message) ==
    [adverb |-> "", message |-> message, bodypart |-> "", arg_words |-> <<>>,
     unrecognized_words |-> <<>>, who_info |-> <<>>, who_list |-> <<>>, who_sequence |-> 0,
     include_flag |-> TRUE, collect_message |-> FALSE, previous_word |-> "",
     error |-> Idle, next |-> 1]

Raise(s, error) == [s EXCEPT !.error = error]

\* include: who_info[who].sequence/.previous_word = ...; who_sequence += 1; who_list.append(who)
Include(s, who) ==
    [s EXCEPT !.who_info = Mention(s.who_info, who, s.who_sequence, s.previous_word),
              !.who_sequence = s.who_sequence + 1,
              !.who_list = Append(s.who_list, who)]

\* exclude, guarded: elif who in who_info: del who_info[who]; who_list.remove(who)
Exclude(s, who) ==
    IF InWho(s.who_info, who)
    THEN [s EXCEPT !.who_info = Delete(s.who_info, who), !.who_list = RemoveFirst(s.who_list, who)]
    ELSE s

\* the branch taken for a name of a living or an item
AddOrRemove(s, who) == IF s.include_flag THEN Include(s, who) ELSE Exclude(s, who)

RECURSIVE ApplyMatches(_, _, _)
\* the loop over prev_who_list of the pronoun branch; its exclusion is unguarded
ApplyMatches(s, matches, k) ==
    IF k > Len(matches) \/ s.error.kind # "idle" THEN s
    ELSE LET who == matches[k][1]
             name == matches[k][2]
         IN  IF s.include_flag
             THEN ApplyMatches([Include(s, who) EXCEPT !.arg_words = Append(s.arg_words, name)],
                               matches, k + 1)
             ELSE IF InWho(s.who_info, who)
             THEN ApplyMatches([Exclude(s, who) EXCEPT !.arg_words = Append(s.arg_words, name)],
                               matches, k + 1)
             ELSE Raise(s, Raised("KeyError", <<who>>))

RECURSIVE IncludeEveryoneAndPlayer(_, _, _, _)
\* the loop without its test "living is not player"
IncludeEveryoneAndPlayer(s, lorder, player, i) ==
    IF i > Len(lorder) THEN s
    ELSE IncludeEveryoneAndPlayer(Include(s, lorder[i]), lorder, player, i + 1)

RECURSIVE IncludeEveryone(_, _, _, _)
\* for living in player.location.livings: if living is not player: include it
IncludeEveryone(s, lorder, player, i) ==
    IF i > Len(lorder) THEN s
    ELSE IncludeEveryone(IF lorder[i] # player THEN Include(s, lorder[i]) ELSE s, lorder, player, i + 1)

\* the handling in which a unique adverb prefix replaces the adverb accepted before
UnmatchedReplacing(c, s, word) ==
    LET living_hint == FirstStartingWith(c.living_pairs, word)
        item_hint == FirstStartingWith(c.item_pairs, word)
        prefixed_adverbs == search_prefix(word)
    IN  IF s.who_list = <<>> /\ living_hint # ""
        THEN Raise(s, ParseError(<<"Perhaps you meant", living_hint>>))
        ELSE IF s.who_list = <<>> /\ item_hint # ""
        THEN Raise(s, ParseError(<<"Perhaps you meant", item_hint>>))
        ELSE IF ~c.external_verb /\ c.verb = None
        THEN Raise(s, UnknownVerbError(word, c.words, c.qualifier))
        ELSE IF ~c.external_verb /\ Len(prefixed_adverbs) = 1
        THEN [s EXCEPT !.adverb = prefixed_adverbs[1],
                       !.arg_words = Append(s.arg_words, prefixed_adverbs[1]),
                       !.previous_word = prefixed_adverbs[1]]
        ELSE IF ~c.external_verb /\ Len(prefixed_adverbs) > 1
        THEN Raise(s, ParseError(<<"What adverb did you mean">> \o prefixed_adverbs))
        ELSE IF c.external_verb
        THEN [s EXCEPT !.arg_words = Append(s.arg_words, word),
                       !.unrecognized_words = Append(s.unrecognized_words, word),
                       !.previous_word = word]
        ELSE IF word \in VERBS \/ word \in ACTION_QUALIFIERS \/ word \in BODY_PARTS
        THEN Raise(s, ParseError(<<"makes no sense at that location", word>>))
        ELSE Raise(s, ParseError(<<"It's not clear what you mean by", word>>))

\* the handling in which an ambiguous adverb prefix is taken as the first candidate
UnmatchedFirstAdverb(c, s, word) ==
    LET living_hint == FirstStartingWith(c.living_pairs, word)
        item_hint == FirstStartingWith(c.item_pairs, word)
        prefixed_adverbs == search_prefix(word)
    IN  IF s.who_list = <<>> /\ living_hint # ""
        THEN Raise(s, ParseError(<<"Perhaps you meant", living_hint>>))
        ELSE IF s.who_list = <<>> /\ item_hint # ""
        THEN Raise(s, ParseError(<<"Perhaps you meant", item_hint>>))
        ELSE IF ~c.external_verb /\ c.verb = None
        THEN Raise(s, UnknownVerbError(word, c.words, c.qualifier))
        ELSE IF ~c.external_verb /\ Len(prefixed_adverbs) >= 1
        THEN IF s.adverb # ""
             THEN Raise(s, ParseError(<<"You can't do that both", s.adverb, prefixed_adverbs[1]>>))
             ELSE [s EXCEPT !.adverb = prefixed_adverbs[1],
                            !.arg_words = Append(s.arg_words, prefixed_adverbs[1]),
                            !.previous_word = prefixed_adverbs[1]]
        ELSE IF c.external_verb
        THEN [s EXCEPT !.arg_words = Append(s.arg_words, word),
                       !.unrecognized_words = Append(s.unrecognized_words, word),
                       !.previous_word = word]
        ELSE IF word \in VERBS \/ word \in ACTION_QUALIFIERS \/ word \in BODY_PARTS
        THEN Raise(s, ParseError(<<"makes no sense at that location", word>>))
        ELSE Raise(s, ParseError(<<"It's not clear what you mean by", word>>))

\* an unmatched word refused whatever the verb
UnmatchedStrict(c, s, word) == Raise(s, ParseError(<<"It's not clear what you mean by", word>>))

\* the handling of a word that matched nothing (if word not in self._skip_words: ...)
Unmatched(c, s, word) ==
    LET living_hint == FirstStartingWith(c.living_pairs, word)
        item_hint == FirstStartingWith(c.item_pairs, word)
        prefixed_adverbs == search_prefix(word)
    IN  IF s.who_list = <<>> /\ living_hint # ""
        THEN Raise(s, ParseError(<<"Perhaps you meant", living_hint>>))
        ELSE IF s.who_list = <<>> /\ item_hint # ""
        THEN Raise(s, ParseError(<<"Perhaps you meant", item_hint>>))
        ELSE IF ~c.external_verb /\ c.verb = None
        THEN Raise(s, UnknownVerbError(word, c.words, c.qualifier))
        ELSE IF ~c.external_verb /\ Len(prefixed_adverbs) = 1
        THEN IF s.adverb # ""
             THEN Raise(s, ParseError(<<"You can't do that both", s.adverb, prefixed_adverbs[1]>>))
             ELSE [s EXCEPT !.adverb = prefixed_adverbs[1],
                            !.arg_words = Append(s.arg_words, prefixed_adverbs[1]),
                            !.previous_word = prefixed_adverbs[1]]
        ELSE IF ~c.external_verb /\ Len(prefixed_adverbs) > 1
        THEN Raise(s, ParseError(<<"What adverb did you mean">> \o prefixed_adverbs))
        ELSE IF c.external_verb
        THEN [s EXCEPT !.arg_words = Append(s.arg_words, word),
                       !.unrecognized_words = Append(s.unrecognized_words, word),
                       !.previous_word = word]
        ELSE IF word \in VERBS \/ word \in ACTION_QUALIFIERS \/ word \in BODY_PARTS
        THEN Raise(s, ParseError(<<"makes no sense at that location", word>>))
        ELSE Raise(s, ParseError(<<"It's not clear what you mean by", word>>))

\* the branches in which a message verb collects its text even after a quoted message
NameOrUnmatchedQuoted(c, s, index, word) ==
    LET exit == check_name_with_spaces(c.words, index, NoPool, NoPool, c.exits)
        other == check_name_with_spaces(c.words, index, c.all_livings, c.all_items, NoPool)
    IN  IF exit.obj # None
        THEN [Include(s, exit.obj) EXCEPT
                 !.previous_word = "",
                 !.arg_words = IF exit.name # "" THEN Append(s.arg_words, exit.name) ELSE s.arg_words,
                 !.next = index + exit.wordcount]
        ELSE IF other.obj # None
        THEN [AddOrRemove(s, other.obj) EXCEPT
                 !.previous_word = "",
                 !.arg_words = IF other.name # "" THEN Append(s.arg_words, other.name) ELSE s.arg_words,
                 !.next = index + other.wordcount]
        ELSE IF c.message_verb
        THEN [s EXCEPT !.collect_message = TRUE,
                       !.message = Append(s.message, word),
                       !.arg_words = Append(s.arg_words, word)]
        ELSE IF word \notin skip_words
        THEN Unmatched(c, s, word)
        ELSE [s EXCEPT !.previous_word = word]

\* the branches from the exit lookup to the end of the loop body
NameOrUnmatched(c, s, index, word) ==
    LET exit == check_name_with_spaces(c.words, index, NoPool, NoPool, c.exits)
        other == check_name_with_spaces(c.words, index, c.all_livings, c.all_items, NoPool)
    IN  IF exit.obj # None
        THEN [Include(s, exit.obj) EXCEPT
                 !.previous_word = "",
                 !.arg_words = IF exit.name # "" THEN Append(s.arg_words, exit.name) ELSE s.arg_words,
                 !.next = index + exit.wordcount]
        ELSE IF other.obj # None
        THEN [AddOrRemove(s, other.obj) EXCEPT
                 !.previous_word = "",
                 !.arg_words = IF other.name # "" THEN Append(s.arg_words, other.name) ELSE s.arg_words,
                 !.next = index + other.wordcount]
        ELSE IF c.message_verb /\ s.message = <<>>
        THEN [s EXCEPT !.collect_message = TRUE,
                       !.message = Append(s.message, word),
                       !.arg_words = Append(s.arg_words, word)]
        ELSE IF word \notin skip_words
        THEN Unmatched(c, s, word)
        ELSE [s EXCEPT !.previous_word = word]

\* one pass of the loop body, for the word at position index (counted from 1)
Step(c, s0, index) ==
    LET word == c.words[index]
        s == [s0 EXCEPT !.next = index + 1]
        said == [s EXCEPT !.arg_words = Append(s.arg_words, word)]
    IN  IF s.collect_message
        THEN [said EXCEPT !.message = Append(s.message, word), !.previous_word = word]
        ELSE IF word \in Pronouns
        THEN LET prev == match_previously_parsed(c, word)
             IN  IF prev.ok
                 THEN [ApplyMatches(s, prev.matches, 1) EXCEPT !.previous_word = ""]
                 ELSE Raise(s, prev.error)
        ELSE IF word \in SelfWords
        THEN [AddOrRemove(said, c.player) EXCEPT !.previous_word = ""]
        ELSE IF word \in BODY_PARTS /\ s.bodypart # ""
        THEN Raise(s, ParseError(<<"You can't do that both", s.bodypart, word>>))
        ELSE IF word \in BODY_PARTS
                /\ ((word \notin DOMAIN c.all_items /\ word \notin DOMAIN c.all_livings)
                    \/ s.previous_word = "my")
        THEN [said EXCEPT !.bodypart = word]
        ELSE IF word \in AllWords
        THEN IF s.include_flag
             THEN IF DOMAIN c.all_livings = {}
                  THEN Raise(s, ParseError(<<"There is nobody here.">>))
                  ELSE [IncludeEveryone(said, c.lorder, c.player, 1) EXCEPT !.previous_word = ""]
             ELSE [said EXCEPT !.who_info = <<>>, !.who_list = <<>>, !.who_sequence = 0,
                               !.previous_word = ""]
        ELSE IF word = "everything"
        THEN Raise(s, ParseError(<<"You can't do something to everything around you, be more specific.">>))
        ELSE IF word \in ExceptWords
        THEN [said EXCEPT !.include_flag = ~s.include_flag]
        ELSE IF word \in Range(ADVERBS)
        THEN IF s.adverb # ""
             THEN Raise(s, ParseError(<<"You can't do that both", s.adverb, word>>))
             ELSE [said EXCEPT !.adverb = word]
        ELSE IF word \in DOMAIN c.all_livings
        THEN [AddOrRemove(said, c.all_livings[word]) EXCEPT !.previous_word = ""]
        ELSE IF word \in DOMAIN c.all_items
        THEN [AddOrRemove(said, c.all_items[word]) EXCEPT !.previous_word = ""]
        ELSE NameOrUnmatched(c, s, index, word)

RECURSIVE Loop(_, _)
\* for index, word in words_enumerator: ... (stops at the first raised error)
Loop(c, s) ==
    IF s.error.kind # "idle" \/ s.next > Len(c.words) THEN s
    ELSE Loop(c, Step(c, s, s.next))

RECURSIVE Join(_)
\* " ".join(message)
Join(message) ==
    IF message = <<>> THEN ""
    ELSE IF Len(message) = 1 THEN message[1]
    ELSE message[1] \o " " \o Join(Tail(message))

(***************************************************************************)
(* Soul.parse                                                              *)
(***************************************************************************)
\* a command line: the words that cmd.split() gives once the quoted message
\* is cut out, the quoted message (<<>>, or <<quote character, text>>), and
\* whether the text without words still holds whitespace
Cmd(words, quote, ws) == [words |-> words, quote |-> quote, ws |-> ws]
Line(words) == Cmd(words, <<>>, FALSE)

\* the part of parse() from the name pools to the construction of the result
ParseWords(snap, words, qualifier, verb, external_verb, message_verb, message) ==
    LET living_pairs == NamePairs(snap.lorder, 1)
        item_pairs == NamePairs(snap.iorder, 1)
        c == [player |-> snap.player, livings |-> snap.livings, lorder |-> snap.lorder,
              exits |-> snap.exits, mem |-> snap.mem,
              words |-> words, qualifier |-> qualifier, verb |-> verb,
              external_verb |-> external_verb, message_verb |-> message_verb,
              living_pairs |-> living_pairs, item_pairs |-> item_pairs,
              all_livings |-> Pool(living_pairs), all_items |-> Pool(item_pairs)]
        s == Loop(c, LoopStart(message))
    IN  IF s.error.kind # "idle" THEN s.error
        ELSE IF verb = None /\ Len(s.who_list) # 1
        THEN UnknownVerbError(words[1], words, qualifier)
        ELSE NewParseResult(IF verb = None THEN "examine" ELSE verb,
                            s.adverb, Join(s.message), s.bodypart, qualifier,
                            s.arg_words, s.unrecognized_words, s.who_info, s.who_list)

\* the exit check that reports the movement verb as the verb of the result
ParseExitMoveVerb(snap, words0, qualifier, message) ==
    LET moving == words0[1] \in MOVEMENT_VERBS
        words == IF moving THEN Tail(words0) ELSE words0
        exit == IF words = <<>> THEN NoMatch
                ELSE check_name_with_spaces(words, 1, NoPool, NoPool, snap.exits)
    IN  IF moving /\ words = <<>>
        THEN ParseError(<<"where?", words0[1]>>)
        ELSE IF exit.obj # None
        THEN IF exit.wordcount # Len(words)
             THEN ParseError(<<"What do you want to do with that?">>)
             ELSE NonSoulVerbError(NewParseResult(words0[1], "", "", "", qualifier, <<>>, <<>>,
                                                  <<>>, <<exit.obj>>).parsed)
        ELSE IF moving
        THEN ParseError(<<"You can't go there", words0[1]>>)
        ELSE ParseWords(snap, words, qualifier, None, FALSE, FALSE, message)

\* the movement and exit check made when the first word is no verb
ParseExit(snap, words0, qualifier, message) ==
    LET moving == words0[1] \in MOVEMENT_VERBS
        words == IF moving THEN Tail(words0) ELSE words0
        exit == IF words = <<>> THEN NoMatch
                ELSE check_name_with_spaces(words, 1, NoPool, NoPool, snap.exits)
    IN  IF moving /\ words = <<>>
        THEN ParseError(<<"where?", words0[1]>>)
        ELSE IF exit.obj # None
        THEN IF exit.wordcount # Len(words)
             THEN ParseError(<<"What do you want to do with that?">>)
             ELSE LET made == NewParseResult(exit.name, "", "", "", qualifier, <<>>, <<>>,
                                             <<>>, <<exit.obj>>)
                  IN  IF made.kind = "ok" THEN NonSoulVerbError(made.parsed) ELSE made
        ELSE IF moving
        THEN ParseError(<<"You can't go there", words0[1]>>)
        ELSE ParseWords(snap, words, qualifier, None, FALSE, FALSE, message)

\* the verb resolution with the catalog consulted before the external verbs
ParseVerbCatalogFirst(snap, words, qualifier, external_verbs, message) ==
    IF words = <<>>
    THEN ParseError(<<"What?">>)
    ELSE IF words[1] \in VERBS
    THEN ParseWords(snap, Tail(words), qualifier, words[1], FALSE, VerbWantsMessage(words[1]), message)
    ELSE IF words[1] \in external_verbs
    THEN ParseWords(snap, Tail(words), qualifier, words[1], TRUE, FALSE, message)
    ELSE IF DOMAIN snap.exits # {}
    THEN ParseExit(snap, words, qualifier, message)
    ELSE ParseWords(snap, words, qualifier, None, FALSE, FALSE, message)

\* the verb resolution on the words left after qualifier and skip word
ParseVerb(snap, words, qualifier, external_verbs, message) ==
    IF words = <<>>
    THEN ParseError(<<"What?">>)
    ELSE IF words[1] \in external_verbs
    THEN ParseWords(snap, Tail(words), qualifier, words[1], TRUE, FALSE, message)
    ELSE IF words[1] \in VERBS
    THEN ParseWords(snap, Tail(words), qualifier, words[1], FALSE, VerbWantsMessage(words[1]), message)
    ELSE IF DOMAIN snap.exits # {}
    THEN ParseExit(snap, words, qualifier, message)
    ELSE ParseWords(snap, words, qualifier, None, FALSE, FALSE, message)

parse(snap, cmd, external_verbs) ==
    LET emptyquote == cmd.quote # <<>> /\ cmd.quote[1] = "'" /\ cmd.quote[2] = ""
        message == IF cmd.quote = <<>> THEN <<>> ELSE <<cmd.quote[2]>>
        hasq == cmd.words # <<>> /\ cmd.words[1] \in ACTION_QUALIFIERS
        qualifier == IF ~hasq THEN ""
                     ELSE IF cmd.words[1] = "dont" THEN "don't" ELSE cmd.words[1]
        words1 == IF hasq THEN Tail(cmd.words) ELSE cmd.words
        words2 == IF words1 # <<>> /\ words1[1] \in skip_words THEN Tail(words1) ELSE words1
    IN  IF emptyquote
        THEN Raised("AttributeError", <<>>)
        ELSE IF cmd.words = <<>> /\ ~cmd.ws
        THEN ParseError(<<"What?">>)
        ELSE IF cmd.words = <<>>
        THEN Raised("IndexError", <<>>)
        ELSE ParseVerb(snap, words2, qualifier, external_verbs, message)

(***************************************************************************)
(* Soul.process_verb_parsed, Soul.process_verb                             *)
(***************************************************************************)
\* Soul.check_person, on the placeholders of the action string
check_person(action, parsed) ==
    ~(parsed.who_info = <<>> /\ ("WHO" \in action \/ "POSS" \in action))

\* the action string built for the shapes that have one template
ShapeAction(parsed) ==
    LET v == parsed.verb
    IN  CASE VerbType(v) = "DEFA" -> {"HOW", "AT"}
          [] VerbType(v) = "PREV" -> {"WHO", "HOW"}
          [] VerbType(v) = "PHYS" -> {"WHO", "HOW", "WHERE"}
          [] VerbType(v) = "SHRT" -> {"HOW"}
          [] VerbType(v) = "PERS" -> IF parsed.who_count # 0 THEN VerbData(v, 3) ELSE VerbData(v, 2)
          [] OTHER -> VerbData(v, 2)

\* action.replace(" \nAT", spacify(verbdata[3]) + " \nWHO") or action.replace(" \nAT", "")
ReplaceAt(action, parsed) ==
    IF "AT" \notin action THEN action
    ELSE IF parsed.who_info # <<>> /\ VerbLen(parsed.verb) > 3
    THEN (action \ {"AT"}) \cup {"WHO"}
    ELSE action \ {"AT"}

\* the words put in place of " \nIS" and " \nSUBJ" in the player's and in the
\* room's sentence ("" for a placeholder the template does not hold)
FixUp(parsed, template) ==
    <<IF "IS" \notin template THEN ""
      ELSE IF parsed.who_count = 1 THEN "is" ELSE "are",
      IF "SUBJ" \notin template THEN ""
      ELSE IF parsed.who_count = 1 THEN Subjective(who_1(parsed)) ELSE "they">>

\* the words put in their place in the target's sentence
FixUpTarget(template) ==
    <<IF "IS" \in template THEN "are" ELSE "", IF "SUBJ" \in template THEN "you" ELSE "">>

\* of the three sentences, what IS and SUBJ became: player, room, target
Sentences(parsed, action, action_room) ==
    <<FixUp(parsed, action), FixUp(parsed, action_room), FixUpTarget(action_room)>>

\* the referents returned with the player left among them
result_messages_all(player, parsed, action, action_room) ==
    [Returned(parsed) EXCEPT !.targets = Range(Keys(parsed.who_info)),
                             !.msg = Sentences(parsed, action, action_room)]

\* result_messages: the referents without the player, and the sentences as far
\* as IS and SUBJ go
result_messages(player, parsed, action, action_room) ==
    [Returned(parsed) EXCEPT !.targets = Range(Keys(parsed.who_info)) \ {player},
                             !.msg = Sentences(parsed, action, action_room)]

\* the outcome of rendering: the error raised, or the referents without the player
process_verb_parsed(player, parsed) ==
    IF parsed.verb \notin VERBS
    THEN UnknownVerbError(parsed.verb, <<>>, parsed.qualifier)
    ELSE IF VerbType(parsed.verb) = "DEUX"
    THEN IF ~check_person(VerbData(parsed.verb, 2), parsed)
         THEN ParseError(<<"needs a person", parsed.verb>>)
         ELSE result_messages(player, parsed, VerbData(parsed.verb, 2), VerbData(parsed.verb, 3))
    ELSE IF VerbType(parsed.verb) = "QUAD"
    THEN IF parsed.who_info # <<>>
         THEN result_messages(player, parsed, VerbData(parsed.verb, 4), VerbData(parsed.verb, 5))
         ELSE result_messages(player, parsed, VerbData(parsed.verb, 2), VerbData(parsed.verb, 3))
    ELSE IF ~check_person(ReplaceAt(ShapeAction(parsed), parsed), parsed)
    THEN ParseError(<<"needs a person", parsed.verb>>)
    ELSE result_messages(player, parsed, ReplaceAt(ShapeAction(parsed), parsed),
                         ReplaceAt(ShapeAction(parsed), parsed))

\* process_verb without its test on the external verbs
process_verb_rendering(snap, cmd, external_verbs) ==
    LET parsed == parse(snap, cmd, external_verbs)
    IN  IF parsed.kind # "ok" THEN parsed
        ELSE process_verb_parsed(snap.player, parsed.parsed)

process_verb(snap, cmd, external_verbs) ==
    LET parsed == parse(snap, cmd, external_verbs)
    IN  IF parsed.kind # "ok" THEN parsed
        ELSE IF external_verbs # {} /\ parsed.parsed.verb \in external_verbs
        THEN NonSoulVerbError(parsed.parsed)
        ELSE process_verb_parsed(snap.player, parsed.parsed)

(***************************************************************************)
(* pubsub.py: Topic and Bus                                                *)
(***************************************************************************)
Threads == {"t1", "t2"}
TopicNames == {"a", "b"}
Listeners == {"l1", "l2"}
Events == {"e"}

\* Topic.__init__: a Topic object on the heap; a reference to it is its index
Topic(name) == [name |-> name, subscribers |-> {}]

\* Topic.subscribe: subscribers.add(weakref.ref(subscriber)); the references
\* to one live listener are equal, the set holds the listener once
Topic_subscribe(objects, t, subscriber) ==
    [objects EXCEPT ![t].subscribers = @ \cup {subscriber}]

\* an unsubscribe that empties the topic
Topic_unsubscribe_every(objects, t, subscriber) ==
    [objects EXCEPT ![t].subscribers = {}]

\* Topic.unsubscribe: subscribers.discard(weakref.ref(subscriber))
Topic_unsubscribe(objects, t, subscriber) ==
    [objects EXCEPT ![t].subscribers = @ \ {subscriber}]

\* Topic.send: the invocations sub(self.name, event) made for the references
\* that are still alive, in the order in which the set is iterated
Topic_send(objects, t, event, order, living) ==
    [i \in 1..Len(SelectSeq(order, LAMBDA l : l \in living)) |->
        <<SelectSeq(order, LAMBDA l : l \in living)[i], objects[t].name, event>>]

\* Bus.__init__
NewBus == [topics |-> <<>>, lock |-> None]

RECURSIVE unsubscribe_all(_, _, _)
\* Bus.unsubscribe_all: for topic in list(self._topics.values()): topic.unsubscribe(subscriber)
unsubscribe_all(objects, registered, subscriber) ==
    IF registered = {} THEN objects
    ELSE LET t == CHOOSE x \in registered : TRUE
         IN  unsubscribe_all(Topic_unsubscribe(objects, t, subscriber), registered \ {t}, subscriber)

\* a thread that is not inside a call of the Bus
IdleThread == [pc |-> "idle", op |-> "none", name |-> "", listener |-> "", result |-> 0, error |-> ""]

\* Bus(): no topic, the lock free, no thread inside a call, every listener
\* referenced by its owner, nothing delivered, nothing logged
BusInit ==
    /\ bus = NewBus
    /\ heap = <<>>
    /\ threads = [t \in Threads |-> IdleThread]
    /\ alive = Listeners
    /\ delivered = <<>>
    /\ log = <<>>

(***************************************************************************)
(* The state machine: a world, one Soul, and the caller of the Soul        *)
(***************************************************************************)
NoCall == [op |-> "none", cmd |-> Line(<<>>), external_verbs |-> {}, lorder |-> <<>>, iorder |-> <<>>]
Calling(op, cmd, external_verbs, snap) ==
    [op |-> op, cmd |-> cmd, external_verbs |-> external_verbs,
     lorder |-> snap.lorder, iorder |-> snap.iorder]

\* Living.__init__ (default location limbo, in no room's set), Location.__init__,
\* Exit.__init__ (not bound yet), Soul.__init__
Init ==
    /\ location = [l \in Livings |-> "limbo"]
    /\ livings = [r \in Rooms |-> {}]
    /\ items = [r \in Rooms |-> {}]
    /\ exits = [r \in Rooms |-> <<>>]
    /\ previously_parsed = EmptyResult
    /\ call = NoCall
    /\ outcome = Idle
    /\ BusInit

\* the caller is between two calls of the Soul
Quiet == call.op = "none"

\* a move that leaves the actor in the set of the location it comes from
MoveKeeping(l, r) ==
    /\ Quiet
    /\ location' = [location EXCEPT ![l] = r]
    /\ livings' = [livings EXCEPT ![r] = @ \cup {l}]
    /\ UNCHANGED <<items, exits, previously_parsed, call, outcome>>
    /\ UNCHANGED pubsub

\* Living.move
Move(l, r) ==
    /\ Quiet
    /\ location' = [location EXCEPT ![l] = r]
    /\ livings' = [x \in Rooms |->
                     IF x = r THEN (livings[x] \ {l}) \cup {l}
                     ELSE IF x = location[l] THEN livings[x] \ {l}
                     ELSE livings[x]]
    /\ UNCHANGED <<items, exits, previously_parsed, call, outcome>>
    /\ UNCHANGED pubsub

\* location.items.add(item)
AddItem(i, r) ==
    /\ Quiet
    /\ i \notin items[r]
    /\ items' = [items EXCEPT ![r] = @ \cup {i}]
    /\ UNCHANGED <<location, livings, exits, previously_parsed, call, outcome>>
    /\ UNCHANGED pubsub

\* location.items.discard(item)
RemoveItem(i, r) ==
    /\ Quiet
    /\ i \in items[r]
    /\ items' = [items EXCEPT ![r] = @ \ {i}]
    /\ UNCHANGED <<location, livings, exits, previously_parsed, call, outcome>>
    /\ UNCHANGED pubsub

\* Exit.bind
Bind(e, r) ==
    /\ Quiet
    /\ exits' = [exits EXCEPT ![r] =
                   [d \in (DOMAIN exits[r]) \cup Aliases(e) \cup {Name(e)} |->
                       IF d \in Aliases(e) \cup {Name(e)} THEN e ELSE exits[r][d]]]
    /\ exits' # exits
    /\ UNCHANGED <<location, livings, items, previously_parsed, call, outcome>>
    /\ UNCHANGED pubsub

\* the iteration orders one call can meet for the room's livings and items
Snapshots(player) ==
    {Snapshot(player, lo, io) :
        lo \in Perms(livings[location[player]]),
        io \in {a \o b : a \in Perms(items[location[player]]), b \in Perms(Inventory(player))}}

\* a parse that also files its result as the remembered one
ParseRemembering(cmd, external_verbs) ==
    /\ Quiet
    /\ \E snap \in Snapshots(Player) :
          /\ call' = Calling("parse", cmd, external_verbs, snap)
          /\ outcome' = parse(snap, cmd, external_verbs)
    /\ previously_parsed' = IF outcome'.kind = "ok" THEN outcome'.parsed ELSE previously_parsed
    /\ UNCHANGED <<location, livings, items, exits>>
    /\ UNCHANGED pubsub

\* a parse that takes the items it names out of the room
ParseTaking(cmd, external_verbs) ==
    /\ Quiet
    /\ \E snap \in Snapshots(Player) :
          /\ call' = Calling("parse", cmd, external_verbs, snap)
          /\ outcome' = parse(snap, cmd, external_verbs)
    /\ items' = [items EXCEPT ![location[Player]] = @ \ Range(Keys(outcome'.parsed.who_info))]
    /\ UNCHANGED <<location, livings, exits, previously_parsed>>
    /\ UNCHANGED pubsub

\* soul.parse(player, cmd, external_verbs)
Parse(cmd, external_verbs) ==
    /\ Quiet
    /\ \E snap \in Snapshots(Player) :
          /\ call' = Calling("parse", cmd, external_verbs, snap)
          /\ outcome' = parse(snap, cmd, external_verbs)
    /\ UNCHANGED <<location, livings, items, exits, previously_parsed>>
    /\ UNCHANGED pubsub

\* soul.process_verb(player, cmd, external_verbs)
ProcessVerb(cmd, external_verbs) ==
    /\ Quiet
    /\ \E snap \in Snapshots(Player) :
          /\ call' = Calling("process_verb", cmd, external_verbs, snap)
          /\ outcome' = process_verb(snap, cmd, external_verbs)
    /\ UNCHANGED <<location, livings, items, exits, previously_parsed>>
    /\ UNCHANGED pubsub

\* soul.process_verb_parsed(player, parsed) on the result of the parse just made
ProcessVerbParsed ==
    /\ call.op = "parse"
    /\ outcome.kind = "ok"
    /\ call' = [call EXCEPT !.op = "process_verb_parsed"]
    /\ outcome' = process_verb_parsed(Player, outcome.parsed)
    /\ UNCHANGED <<location, livings, items, exits, previously_parsed>>
    /\ UNCHANGED pubsub

\* soul.remember_previous_parse(parsed) with the result the caller holds
Remember ==
    /\ call.op \in {"parse", "process_verb_parsed"}
    /\ outcome.kind = "ok"
    /\ previously_parsed' = outcome.parsed
    /\ call' = NoCall
    /\ outcome' = Idle
    /\ UNCHANGED <<location, livings, items, exits>>
    /\ UNCHANGED pubsub

\* the caller lets go of the outcome of its last call
Drop ==
    /\ ~Quiet
    /\ call' = NoCall
    /\ outcome' = Idle
    /\ UNCHANGED <<location, livings, items, exits, previously_parsed>>
    /\ UNCHANGED pubsub

\* the command lines of the world-changing specification
SpecWords == {"all", "me", "her"}
SpecLines == {Line(<<"smile">> \o tail) : tail \in SeqsUpTo(SpecWords, MaxWords)}
SpecExternal == {{}, {"smile"}}

Next ==
    \/ Quiet /\ \E l \in Livings, r \in Rooms : Move(l, r)
    \/ Quiet /\ \E cmd \in SpecLines : Parse(cmd, {})
    \/ Quiet /\ \E cmd \in SpecLines, ext \in SpecExternal : ProcessVerb(cmd, ext)
    \/ ProcessVerbParsed
    \/ Remember
    \/ Drop

Spec == Init /\ [][Next]_vars

(***************************************************************************)
(* The single-call specifications: a built world, a remembered result, and *)
(* one call of parse()                                                     *)
(***************************************************************************)
\* the sets Living.move leaves behind when every living has been moved to loc[l]
Populated(loc) == [r \in Rooms |-> {l \in Livings : loc[l] = r}]

\* remember_previous_parse(ParseResult("smile", who_list=who_list))
Remembering(who_list) == NewParseResult("smile", "", "", "", "", <<>>, <<>>, <<>>, who_list).parsed

\* a room with the player, kate, the newspaper and the south exit; the dinosaur
\* is in the room or has been moved away
RefInit ==
    /\ \E d \in Rooms : location = [l \in Livings |-> IF l = "dino" THEN d ELSE "room"]
    /\ livings = Populated(location)
    /\ items = [r \in Rooms |-> IF r = "room" THEN Items ELSE {}]
    /\ exits = [r \in Rooms |-> IF r = "room" THEN [d \in {"south"} |-> "south"] ELSE <<>>]
    /\ \E who_list \in SeqsUpTo({Player}, 1) : previously_parsed = Remembering(who_list)
    /\ call = NoCall
    /\ outcome = Idle
    /\ BusInit

RefWords == {"kate", "julie", "me", "all", "except", "south", "newspaper", "them"}
RefLines == {Line(<<"smile">> \o tail) : tail \in SeqsUpTo(RefWords, MaxMentions)}

RefNext == Quiet /\ \E cmd \in RefLines : Parse(cmd, {})

SpecRefs == RefInit /\ [][RefNext]_vars

\* longer lines over fewer words: the same referent again and again
RepeatWords == {"kate", "all", "except"}
RepeatLines == {Line(<<"smile">> \o tail) : tail \in SeqsUpTo(RepeatWords, MaxRepeats)}

RepeatNext == Quiet /\ \E cmd \in RepeatLines : Parse(cmd, {})

SpecRepeat == RefInit /\ [][RepeatNext]_vars

(***************************************************************************)
(* The pronoun specification: a result is remembered in the built world    *)
(* (everything it names is present), then the world changes and lines with *)
(* pronouns are parsed                                                     *)
(***************************************************************************)
Injective(s) == \A i, j \in 1..Len(s) : s[i] = s[j] => i = j

PronounInit ==
    /\ location = [l \in Livings |-> "room"]
    /\ livings = Populated(location)
    /\ items = [r \in Rooms |-> IF r = "room" THEN Items ELSE {}]
    /\ exits = [r \in Rooms |-> IF r = "room" THEN [d \in {"south"} |-> "south"] ELSE <<>>]
    /\ \E who_list \in {wl \in SeqsUpTo(Objects, MaxRemembered) : Injective(wl)} :
          previously_parsed = Remembering(who_list)
    /\ call = NoCall
    /\ outcome = Idle
    /\ BusInit

PronounWords == {"it", "her", "him", "them"}
PronounLines == {Line(<<"smile">> \o tail) : tail \in SeqsUpTo(PronounWords, MaxPronouns)}

PronounNext ==
    \/ Quiet /\ \E l \in Livings, r \in Rooms : Move(l, r)
    \/ \E i \in Items : AddItem(i, "room")
    \/ \E i \in Items : RemoveItem(i, "room")
    \/ \E e \in Exits, r \in Rooms : Bind(e, r)
    \/ Quiet /\ \E cmd \in PronounLines : Parse(cmd, {})
    \/ Drop

SpecPronoun == PronounInit /\ [][PronounNext]_vars

(***************************************************************************)
(* The name-matching specification: check_name_with_spaces called on its   *)
(* own, with a token sequence, a start index and three pools               *)
(***************************************************************************)
Tokens == {"dark", "red"}
PoolKinds == {"living", "item", "exit"}

\* the name of k tokens that the pools of this specification may hold
PoolName(k) == Join([i \in 1..k |-> IF i % 2 = 1 THEN "dark" ELSE "red"])

\* a pool of one kind, holding the names the entries give to that kind; the
\* referent filed under a name is told apart by kind and name
PoolOf(entries, kind) ==
    [n \in {PoolName(e[2]) : e \in {x \in entries : x[1] = kind}} |-> kind \o ":" \o n]

NameEntries == {es \in SUBSET (PoolKinds \X (1..MaxTokens)) : Cardinality(es) <= 2}

NameCall(words, startindex, all_livings, all_items, all_exits) ==
    [op |-> "check_name_with_spaces", words |-> words, startindex |-> startindex,
     all_livings |-> all_livings, all_items |-> all_items, all_exits |-> all_exits]

\* soul.check_name_with_spaces(words, startindex, all_livings, all_items, all_exits)
CheckName(words, startindex, all_livings, all_items, all_exits) ==
    /\ Quiet
    /\ call' = NameCall(words, startindex, all_livings, all_items, all_exits)
    /\ outcome' = check_name_with_spaces(words, startindex, all_livings, all_items, all_exits)
    /\ UNCHANGED <<location, livings, items, exits, previously_parsed>>
    /\ UNCHANGED pubsub

NamesNext ==
    \/ Quiet /\ \E words \in SeqsUpTo(Tokens, MaxTokens) \ {<<>>}, es \in NameEntries :
                   \E startindex \in {i \in 1..2 : i <= Len(words)} :
                       CheckName(words, startindex, PoolOf(es, "living"), PoolOf(es, "item"),
                                 PoolOf(es, "exit"))
    \/ Drop

SpecNames == Init /\ [][NamesNext]_vars

(***************************************************************************)
(* The verb-resolution specification: one call of parse() or               *)
(* process_verb() with a set of external verbs, in a room whose exits may  *)
(* carry the name of a catalog verb                                        *)
(***************************************************************************)
\* an exit whose direction is also a verb of the catalog: Exit("smile", ...)
VerbExits == {"smile"}

VerbInit ==
    /\ location = [l \in Livings |-> IF l = "dino" THEN "limbo" ELSE "room"]
    /\ livings = Populated(location)
    /\ items = [r \in Rooms |-> IF r = "room" THEN Items ELSE {}]
    /\ \E bound \in SUBSET (Exits \cup VerbExits) :
          exits = [r \in Rooms |-> IF r = "room" THEN [d \in bound |-> d] ELSE <<>>]
    /\ previously_parsed = EmptyResult
    /\ call = NoCall
    /\ outcome = Idle
    /\ BusInit

VerbWords == {"smile", "say", "south", "crawl", "kate", "fail", "frob", "sic"}
VerbLines == {Line(ws) : ws \in SeqsUpTo(VerbWords, MaxVerbWords) \ {<<>>}}
VerbExternal == {{}, {"smile"}, {"south"}, {"frob"}}

VerbNext ==
    \/ Quiet /\ \E cmd \in VerbLines, ext \in VerbExternal : Parse(cmd, ext)
    \/ Quiet /\ \E cmd \in VerbLines, ext \in VerbExternal : ProcessVerb(cmd, ext)

SpecVerbs == VerbInit /\ [][VerbNext]_vars

(***************************************************************************)
(* The rendering specification: every verb of the catalog, with and        *)
(* without referents, through process_verb() and through parse() followed  *)
(* by process_verb_parsed()                                                *)
(***************************************************************************)
RenderWords == {"kate", "me", "julie"}
RenderLines == {Line(<<v>> \o tail) : v \in VERBS, tail \in SeqsUpTo(RenderWords, MaxTargets)}

RenderNext ==
    \/ Quiet /\ \E cmd \in RenderLines : Parse(cmd, {})
    \/ Quiet /\ \E cmd \in RenderLines : ProcessVerb(cmd, {})
    \/ ProcessVerbParsed

SpecRender == VerbInit /\ [][RenderNext]_vars

(***************************************************************************)
(* The adverb specification: one call of parse() on a line with adverbs,   *)
(* adverb prefixes and name prefixes, under a soul verb, a verb that takes *)
(* a message and an external verb, with and without a quoted message       *)
(***************************************************************************)
AdverbWords == {"sickly", "happily", "sic", "si", "hap", "kate", "k"}
AdverbVerbs == {"smile", "say", "frob"}
AdverbQuotes == {<<>>, <<"'", "hi">>}
AdverbLines ==
    {Cmd(<<v>> \o tail, q, FALSE) :
        v \in AdverbVerbs, tail \in SeqsUpTo(AdverbWords, MaxAdverbWords), q \in AdverbQuotes}
AdverbExternal == {{}, {"frob"}}

AdverbNext == Quiet /\ \E cmd \in AdverbLines, ext \in AdverbExternal : Parse(cmd, ext)

\* the room of the verb-resolution specification with its south exit
AdverbInit == VerbInit /\ DOMAIN exits["room"] = Exits

SpecAdverbs == AdverbInit /\ [][AdverbNext]_vars

(***************************************************************************)
(* The body-part specification: one call of parse() on a line with body    *)
(* parts, in a room that may hold an item named like a body part           *)
(***************************************************************************)
\* Item("knee"): an item whose name is a word of verbs.BODY_PARTS
BodyItems == {"knee"}

BodyInit ==
    /\ location = [l \in Livings |-> IF l = "dino" THEN "limbo" ELSE "room"]
    /\ livings = Populated(location)
    /\ \E held \in SUBSET BodyItems :
          items = [r \in Rooms |-> IF r = "room" THEN Items \cup held ELSE {}]
    /\ exits = [r \in Rooms |-> <<>>]
    /\ previously_parsed = EmptyResult
    /\ call = NoCall
    /\ outcome = Idle
    /\ BusInit

BodyWords == {"knee", "head", "my", "sickly", "kate", "zork"}
BodyVerbs == {"pat", "say", "frob"}
BodyLines == {Line(<<v>> \o tail) : v \in BodyVerbs, tail \in SeqsUpTo(BodyWords, MaxBodyWords)}

BodyNext == Quiet /\ \E cmd \in BodyLines, ext \in AdverbExternal : Parse(cmd, ext)

SpecBody == BodyInit /\ [][BodyNext]_vars

(***************************************************************************)
(* The construction specification: ParseResult(verb, who_info=...,         *)
(* who_list=...) called on its own, and the accessors of the result        *)
(***************************************************************************)
\* the who_info arguments: ordered maps over distinct referents
SuppliedInfos ==
    {[i \in 1..Len(keys) |-> WhoInfo(keys[i], i - 1)] :
        keys \in {k \in SeqsUpTo(Objects, MaxSupplied) : Injective(k)}}

\* ParseResult("walk", who_info=who_info, who_list=who_list)
Construct(who_info, who_list) ==
    /\ Quiet
    /\ call' = [op |-> "ParseResult", who_info |-> who_info, who_list |-> who_list]
    /\ outcome' = NewParseResult("walk", "", "", "", "", <<>>, <<>>, who_info, who_list)
    /\ UNCHANGED <<location, livings, items, exits, previously_parsed>>
    /\ UNCHANGED pubsub

\* parsed.who_1, parsed.who_12, parsed.who_123, parsed.who_last read off the
\* result just constructed
ReadWho ==
    /\ call.op = "ParseResult"
    /\ outcome.kind = "ok"
    /\ call' = [call EXCEPT !.op = "who"]
    /\ outcome' = [kind |-> "who", parsed |-> outcome.parsed,
                   who_1 |-> who_1(outcome.parsed), who_12 |-> who_12(outcome.parsed),
                   who_123 |-> who_123(outcome.parsed), who_last |-> who_last(outcome.parsed)]
    /\ UNCHANGED <<location, livings, items, exits, previously_parsed>>
    /\ UNCHANGED pubsub

ConstructNext ==
    \/ Quiet /\ \E who_info \in SuppliedInfos, who_list \in SeqsUpTo(Objects, MaxListed) :
                   Construct(who_info, who_list)
    \/ ReadWho
    \/ Drop

SpecConstruct == Init /\ [][ConstructNext]_vars

(***************************************************************************)
(* The frame specification: the three calls of the Soul, returning and     *)
(* raising, between changes of the world                                   *)
(***************************************************************************)
\* everything in one room, the south exit bound, the newspaper remembered
FrameInit == PronounInit /\ previously_parsed = Remembering(<<"newspaper">>)

FrameLines ==
    {Line(ws) : ws \in {<<"smile">>, <<"smile", "kate">>, <<"smile", "it">>, <<"smile", "newspaper">>,
                        <<"touch">>, <<"south">>, <<"frob", "zork">>}}

FrameNext ==
    \/ Quiet /\ \E l \in Livings, r \in Rooms : Move(l, r)
    \/ \E i \in Items : AddItem(i, "room")
    \/ \E i \in Items : RemoveItem(i, "room")
    \/ \E e \in Exits, r \in Rooms : Bind(e, r)
    \/ Quiet /\ \E cmd \in FrameLines, ext \in AdverbExternal : Parse(cmd, ext)
    \/ Quiet /\ \E cmd \in FrameLines, ext \in AdverbExternal : ProcessVerb(cmd, ext)
    \/ ProcessVerbParsed
    \/ Drop

SpecFrame == FrameInit /\ [][FrameNext]_vars

(***************************************************************************)
(* One caller of two topics: subscribe, unsubscribe, unsubscribe_all, send *)
(***************************************************************************)
MaxOps == 4

\* what the caller did: the method, the topic's name, the listener, the event
Did(op, name, listener, event) == [op |-> op, topic |-> name, listener |-> listener, event |-> event]

\* the topics the Bus has registered: list(self._topics.values())
Registered == {bus.topics[n] : n \in DOMAIN bus.topics}

\* bus = Bus(); bus.topic("a"); bus.topic("b"): both topics created and
\* registered, nobody subscribed
PubsubInit ==
    /\ location = [l \in Livings |-> "limbo"]
    /\ livings = [r \in Rooms |-> {}]
    /\ items = [r \in Rooms |-> {}]
    /\ exits = [r \in Rooms |-> <<>>]
    /\ previously_parsed = EmptyResult
    /\ call = NoCall
    /\ outcome = Idle
    /\ bus = [NewBus EXCEPT !.topics = [n \in TopicNames |-> IF n = "a" THEN 1 ELSE 2]]
    /\ heap = <<Topic("a"), Topic("b")>>
    /\ threads = [t \in Threads |-> IdleThread]
    /\ alive = Listeners
    /\ delivered = <<>>
    /\ log = <<>>

\* topic.subscribe(listener)
TopicSubscribe(t, l) ==
    /\ Len(log) < MaxOps
    /\ l \in alive
    /\ heap' = Topic_subscribe(heap, t, l)
    /\ log' = Append(log, Did("subscribe", heap[t].name, l, ""))
    /\ UNCHANGED <<bus, threads, alive, delivered>>
    /\ UNCHANGED soul

\* topic.unsubscribe(listener)
TopicUnsubscribe(t, l) ==
    /\ Len(log) < MaxOps
    /\ l \in alive
    /\ heap' = Topic_unsubscribe(heap, t, l)
    /\ log' = Append(log, Did("unsubscribe", heap[t].name, l, ""))
    /\ UNCHANGED <<bus, threads, alive, delivered>>
    /\ UNCHANGED soul

\* bus.unsubscribe_all(listener)
UnsubscribeAll(l) ==
    /\ Len(log) < MaxOps
    /\ l \in alive
    /\ heap' = unsubscribe_all(heap, Registered, l)
    /\ log' = Append(log, Did("unsubscribe_all", "", l, ""))
    /\ UNCHANGED <<bus, threads, alive, delivered>>
    /\ UNCHANGED soul

\* topic.send(event): the set of subscribers is iterated in some order
TopicSend(t, event) ==
    /\ Len(log) < MaxOps
    /\ \E order \in Perms(heap[t].subscribers) :
           delivered' = Topic_send(heap, t, event, order, alive)
    /\ log' = Append(log, Did("send", heap[t].name, "", event))
    /\ UNCHANGED <<bus, heap, threads, alive>>
    /\ UNCHANGED soul

\* the owner of a listener drops its last reference: the weak references to
\* the listener are dead from now on
Collect(l) ==
    /\ Len(log) < MaxOps
    /\ l \in alive
    /\ alive' = alive \ {l}
    /\ log' = Append(log, Did("collect", "", l, ""))
    /\ UNCHANGED <<bus, heap, threads, delivered>>
    /\ UNCHANGED soul

PubsubNext ==
    \/ \E t \in DOMAIN heap, l \in Listeners : TopicSubscribe(t, l)
    \/ \E t \in DOMAIN heap, l \in Listeners : TopicUnsubscribe(t, l)
    \/ \E l \in Listeners : UnsubscribeAll(l)
    \/ \E t \in DOMAIN heap, event \in Events : TopicSend(t, event)
    \/ \E l \in Listeners : Collect(l)

SpecPubsub == PubsubInit /\ [][PubsubNext]_vars

(***************************************************************************)
(* Threads calling Bus.topic, Bus.subscribe and Bus.remove_topic           *)
(***************************************************************************)
MaxRemovals == 1

\* the listener each thread subscribes, the names that are removed
Owned(t) == IF t = "t1" THEN "l1" ELSE "l2"
Removable == {"a"}

\* a lock that lets everybody in
Unlocked(holder) == TRUE

\* threading.Lock.acquire: only a free lock is taken
Free(holder) == holder = None

\* a thread calls bus.topic(name) or bus.subscribe(name, listener); both start
\* with self.topic(name, False), whose first step is "with self._lock"
Enter(t, op, name, listener) ==
    /\ threads[t].pc = "idle"
    /\ threads' = [threads EXCEPT ![t] =
           [pc |-> "lock", op |-> op, name |-> name, listener |-> listener, result |-> 0, error |-> ""]]
    /\ UNCHANGED <<bus, heap, alive, delivered, log>>
    /\ UNCHANGED soul

\* with self._lock: the thread waits until the lock is free and takes it
AcquireLock(t) ==
    /\ threads[t].pc = "lock"
    /\ Free(bus.lock)
    /\ bus' = [bus EXCEPT !.lock = t]
    /\ threads' = [threads EXCEPT ![t].pc = "check"]
    /\ UNCHANGED <<heap, alive, delivered, log>>
    /\ UNCHANGED soul

\* if name in self._topics
Check(t) ==
    /\ threads[t].pc = "check"
    /\ threads' = [threads EXCEPT ![t].pc =
           IF threads[t].name \in DOMAIN bus.topics THEN "fetch" ELSE "create"]
    /\ UNCHANGED <<bus, heap, alive, delivered, log>>
    /\ UNCHANGED soul

\* where the thread goes on after self.topic has returned: Bus.subscribe and
\* Bus.unsubscribe have one more statement
AfterTopic(t) == IF threads[t].op \in {"subscribe", "unsubscribe"} THEN "add" ELSE "idle"

\* return self._topics[name], leaving the with block; the name may have been
\* removed since the test (KeyError)
Fetch(t) ==
    /\ threads[t].pc = "fetch"
    /\ bus' = [bus EXCEPT !.lock = None]
    /\ threads' = [threads EXCEPT ![t] =
           IF threads[t].name \in DOMAIN bus.topics
           THEN [@ EXCEPT !.pc = AfterTopic(t), !.result = bus.topics[threads[t].name]]
           ELSE [@ EXCEPT !.pc = "idle", !.error = "KeyError"]]
    /\ UNCHANGED <<heap, alive, delivered, log>>
    /\ UNCHANGED soul

\* topic = self._topics[name] = Topic(name); return topic, leaving the with block
Create(t) ==
    /\ threads[t].pc = "create"
    /\ heap' = Append(heap, Topic(threads[t].name))
    /\ bus' = [bus EXCEPT !.lock = None,
                          !.topics = (threads[t].name :> (Len(heap) + 1)) @@ bus.topics]
    /\ threads' = [threads EXCEPT ![t].pc = AfterTopic(t), ![t].result = Len(heap) + 1]
    /\ UNCHANGED <<alive, delivered, log>>
    /\ UNCHANGED soul

\* Bus.subscribe, second statement: t.subscribe(listener); Bus.unsubscribe,
\* second statement: t.unsubscribe(listener), leaving the outer with block
Add(t) ==
    /\ threads[t].pc = "add"
    /\ heap' = IF threads[t].op = "subscribe"
               THEN Topic_subscribe(heap, threads[t].result, threads[t].listener)
               ELSE Topic_unsubscribe(heap, threads[t].result, threads[t].listener)
    /\ bus' = IF threads[t].op = "subscribe" THEN bus ELSE [bus EXCEPT !.lock = None]
    /\ threads' = [threads EXCEPT ![t].pc = "idle"]
    /\ UNCHANGED <<alive, delivered, log>>
    /\ UNCHANGED soul

\* Bus.remove_topic(name), called by one more thread: del self._topics[name],
\* without the lock (for a name that is not registered it raises KeyError and
\* changes nothing)
RemoveTopic(name) ==
    /\ Len(log) < MaxRemovals
    /\ name \in DOMAIN bus.topics
    /\ bus' = [bus EXCEPT !.topics = [n \in DOMAIN bus.topics \ {name} |-> bus.topics[n]]]
    /\ log' = Append(log, Did("remove_topic", name, "", ""))
    /\ UNCHANGED <<heap, threads, alive, delivered>>
    /\ UNCHANGED soul

BusNext ==
    \/ \E t \in Threads, name \in TopicNames : Enter(t, "topic", name, "")
    \/ \E t \in Threads, name \in TopicNames : Enter(t, "subscribe", name, Owned(t))
    \/ \E t \in Threads : AcquireLock(t)
    \/ \E t \in Threads : Check(t)
    \/ \E t \in Threads : Fetch(t)
    \/ \E t \in Threads : Create(t)
    \/ \E t \in Threads : Add(t)
    \/ \E name \in Removable : RemoveTopic(name)

SpecBus == Init /\ [][BusNext]_vars

(***************************************************************************)
(* One caller that subscribes, removes topics and sends                    *)
(***************************************************************************)
\* the thread of the one caller
Caller == "t1"

\* what the caller's last call of the Bus raised, if anything
Outcome(op, name, error) ==
    [pc |-> "idle", op |-> op, name |-> name, listener |-> "", result |-> 0, error |-> error]

\* bus.remove_topic(name): del self._topics[name]; KeyError for a name that is
\* not registered
RemoveTopicCall(name) ==
    /\ Len(log) < MaxOps
    /\ bus' = [bus EXCEPT !.topics = [n \in DOMAIN bus.topics \ {name} |-> bus.topics[n]]]
    /\ threads' = [threads EXCEPT ![Caller] =
           Outcome("remove_topic", name, IF name \in DOMAIN bus.topics THEN "" ELSE "KeyError")]
    /\ log' = Append(log, Did("remove_topic", name, "", ""))
    /\ UNCHANGED <<heap, alive, delivered>>
    /\ UNCHANGED soul

\* bus.send(name, event): t = self.topic(name, True), LookupError for a name
\* that is not registered; t.send(event)
BusSend(name, event) ==
    /\ Len(log) < MaxOps
    /\ IF name \in DOMAIN bus.topics
       THEN /\ \E order \in Perms(heap[bus.topics[name]].subscribers) :
                  delivered' = Topic_send(heap, bus.topics[name], event, order, alive)
            /\ threads' = [threads EXCEPT ![Caller] = Outcome("send", name, "")]
       ELSE /\ delivered' = <<>>
            /\ threads' = [threads EXCEPT ![Caller] = Outcome("send", name, "LookupError")]
    /\ log' = Append(log, Did("bus_send", name, "", event))
    /\ UNCHANGED <<bus, heap, alive>>
    /\ UNCHANGED soul

RemoveNext ==
    \/ \E t \in DOMAIN heap, l \in Listeners : TopicSubscribe(t, l)
    \/ \E name \in TopicNames : RemoveTopicCall(name)
    \/ \E t \in DOMAIN heap, event \in Events : TopicSend(t, event)
    \/ \E name \in TopicNames, event \in Events : BusSend(name, event)

SpecRemove == PubsubInit /\ [][RemoveNext]_vars

(***************************************************************************)
(* Lines with and without a quoted message, under a verb that takes a      *)
(* message and under one that takes none                                   *)
(***************************************************************************)
MaxMessageWords == 3

MessageWords == {"zork", "kate", "sickly", "head", "except"}
MessageVerbs == {"say", "smile"}
\* no quoted message, one of one word, an empty one in single quotes
MessageQuotes == AdverbQuotes \cup {<<"'", "">>}
MessageLines ==
    {Cmd(<<v>> \o tail, q, FALSE) :
        v \in MessageVerbs, tail \in SeqsUpTo(MessageWords, MaxMessageWords), q \in MessageQuotes}

MessageNext == Quiet /\ \E cmd \in MessageLines : Parse(cmd, {})

SpecMessage == AdverbInit /\ [][MessageNext]_vars

(***************************************************************************)
(* who_replacement and poss_replacement, called on every actor, target and *)
(* observer                                                                *)
(***************************************************************************)
\* a returned word, a raised TaleError
Word(w) == [kind |-> "ok", word |-> w]
TaleError(msg) == [kind |-> "TaleError", word |-> msg]

\* the wording that looks at the observer first
who_replacement_observer_first(actor, target, observer) ==
    IF target = observer THEN Word("you")
    ELSE IF target = actor THEN Word(Objective(actor) \o "self")
    ELSE Word(Title(target))

\* Soul.who_replacement
who_replacement(actor, target, observer) ==
    IF target = actor
    THEN IF actor = observer THEN Word("yourself") ELSE Word(Objective(actor) \o "self")
    ELSE IF target = observer THEN Word("you") ELSE Word(Title(target))

\* the wording that looks at the observer first
poss_replacement_observer_first(actor, target, observer) ==
    IF target = observer THEN Word("your")
    ELSE IF target = actor THEN Word(Possessive(actor) \o " own")
    ELSE IF target # None THEN Word(lang_possessive(Title(target)))
    ELSE TaleError("cannot determine POSS for None target")

\* Soul.poss_replacement
poss_replacement(actor, target, observer) ==
    IF target = actor
    THEN IF actor = observer THEN Word("your own") ELSE Word(Possessive(actor) \o " own")
    ELSE IF target = observer THEN Word("your")
    ELSE IF target # None THEN Word(lang_possessive(Title(target)))
    ELSE TaleError("cannot determine POSS for None target")

\* who can be asked about: the target of who_replacement is an object, the
\* target of poss_replacement and the observer may be None
Observers == Livings \cup {None}

WhoReplacement(actor, target, observer) ==
    /\ Quiet
    /\ call' = [op |-> "who_replacement", actor |-> actor, target |-> target, observer |-> observer]
    /\ outcome' = who_replacement(actor, target, observer)
    /\ UNCHANGED <<location, livings, items, exits, previously_parsed>>
    /\ UNCHANGED pubsub

PossReplacement(actor, target, observer) ==
    /\ Quiet
    /\ call' = [op |-> "poss_replacement", actor |-> actor, target |-> target, observer |-> observer]
    /\ outcome' = poss_replacement(actor, target, observer)
    /\ UNCHANGED <<location, livings, items, exits, previously_parsed>>
    /\ UNCHANGED pubsub

WordingNext ==
    \/ \E actor \in Livings, target \in Objects, observer \in Observers :
          WhoReplacement(actor, target, observer)
    \/ \E actor \in Livings, target \in Objects \cup {None}, observer \in Observers :
          PossReplacement(actor, target, observer)
    \/ Drop

SpecWording == Init /\ [][WordingNext]_vars

(***************************************************************************)
(* Threads calling Bus.unsubscribe, Bus.topic and Bus.subscribe on topics  *)
(* that exist                                                              *)
(***************************************************************************)
\* a thread calls bus.unsubscribe(name, listener): its first step is the
\* "with self._lock" of Bus.unsubscribe
EnterUnsubscribe(t, name) ==
    /\ threads[t].pc = "idle"
    /\ threads' = [threads EXCEPT ![t] =
           [pc |-> "outer", op |-> "unsubscribe", name |-> name, listener |-> Owned(t),
            result |-> 0, error |-> ""]]
    /\ UNCHANGED <<bus, heap, alive, delivered, log>>
    /\ UNCHANGED soul

\* Bus.unsubscribe, with self._lock: the thread takes the free lock and calls
\* self.topic(topic, True), whose first step is "with self._lock" again
OuterLock(t) ==
    /\ threads[t].pc = "outer"
    /\ Free(bus.lock)
    /\ bus' = [bus EXCEPT !.lock = t]
    /\ threads' = [threads EXCEPT ![t].pc = "lock"]
    /\ UNCHANGED <<heap, alive, delivered, log>>
    /\ UNCHANGED soul

\* the steps a thread takes inside a call
Proceed(t) == OuterLock(t) \/ AcquireLock(t) \/ Check(t) \/ Fetch(t) \/ Add(t)

UnsubscribeNext ==
    \/ \E t \in Threads, name \in TopicNames : Enter(t, "topic", name, "")
    \/ \E t \in Threads, name \in TopicNames : Enter(t, "subscribe", name, Owned(t))
    \/ \E t \in Threads, name \in TopicNames : EnterUnsubscribe(t, name)
    \/ \E t \in Threads : OuterLock(t)
    \/ \E t \in Threads : AcquireLock(t)
    \/ \E t \in Threads : Check(t)
    \/ \E t \in Threads : Fetch(t)
    \/ \E t \in Threads : Add(t)

\* every thread inside a call goes on when it can; a thread waiting for the
\* lock gets it when the lock is free again and again
SpecUnsubscribe ==
    /\ PubsubInit
    /\ [][UnsubscribeNext]_vars
    /\ \A t \in Threads : SF_vars(Proceed(t))

(***************************************************************************)
(* Topic.send step by step, with callbacks that subscribe or unsubscribe   *)
(* on the topic they are called for                                        *)
(***************************************************************************)
MaxSends == 3

\* what a callback does when it is invoked: nothing, or one call of
\* subscribe or unsubscribe on the same topic
Effects == {<<"none", "">>} \cup {<<m, l>> : m \in {"subscribe", "unsubscribe"}, l \in Listeners}
Effect(objects, t, effect) ==
    IF effect[1] = "subscribe" THEN Topic_subscribe(objects, t, effect[2])
    ELSE IF effect[1] = "unsubscribe" THEN Topic_unsubscribe(objects, t, effect[2])
    ELSE objects

\* the caller is not inside send
Outside == threads[Caller].pc = "idle"

\* topic.send(event), "for sub_ref in self.subscribers": the iterator notes
\* the size of the set (used) and will go through it in some order (todo);
\* started keeps who was subscribed at this moment
SendStart(t, event) ==
    /\ Outside
    /\ Len(log) < MaxSends
    /\ \E order \in Perms(heap[t].subscribers) :
          threads' = [threads EXCEPT ![Caller] =
              [pc |-> "sending", op |-> "send", name |-> heap[t].name, listener |-> "",
               result |-> t, error |-> "", event |-> event, todo |-> order,
               used |-> Cardinality(heap[t].subscribers), started |-> heap[t].subscribers]]
    /\ delivered' = <<>>
    /\ log' = Append(log, Did("send", heap[t].name, "", event))
    /\ UNCHANGED <<bus, heap, alive>>
    /\ UNCHANGED soul

\* one turn of the loop: the iterator raises RuntimeError when the size of the
\* set is not what it was, stops at the end of the set, and otherwise yields
\* the next reference; sub = sub_ref(); if sub: sub(self.name, event), and the
\* callback does what it does
SendStep ==
    LET me == threads[Caller]
        t == me.result
    IN  /\ me.pc = "sending"
        /\ IF Cardinality(heap[t].subscribers) # me.used
           THEN /\ threads' = [threads EXCEPT ![Caller].pc = "idle", ![Caller].error = "RuntimeError"]
                /\ UNCHANGED <<heap, delivered>>
           ELSE IF me.todo = <<>>
           THEN /\ threads' = [threads EXCEPT ![Caller].pc = "idle"]
                /\ UNCHANGED <<heap, delivered>>
           ELSE /\ threads' = [threads EXCEPT ![Caller].todo = Tail(me.todo)]
                /\ IF Head(me.todo) \in alive
                   THEN /\ delivered' = Append(delivered, <<Head(me.todo), heap[t].name, me.event>>)
                        /\ \E effect \in Effects : heap' = Effect(heap, t, effect)
                   ELSE UNCHANGED <<heap, delivered>>
        /\ UNCHANGED <<bus, alive, log>>
        /\ UNCHANGED soul

SendNext ==
    \/ Outside /\ \E t \in DOMAIN heap, l \in Listeners : TopicSubscribe(t, l)
    \/ \E t \in DOMAIN heap, event \in Events : SendStart(t, event)
    \/ SendStep

SpecSend == PubsubInit /\ [][SendNext]_vars

(***************************************************************************)
(* What a line says, read off the words of the call (used by the claims)   *)
(***************************************************************************)
\* the snapshot the call in progress was made with
CallSnap == Snapshot(Player, call.lorder, call.iorder)
\* the words after the verb
Said == Tail(call.cmd.words)
ParsedOk == call.op = "parse" /\ outcome.kind = "ok"
Who == outcome.parsed.who_info
Here == location[Player]

\* word i stands in inclusion mode: an even number of except/but words precede it
IncludedAt(i) == Cardinality({j \in 1..(i - 1) : Said[j] \in ExceptWords}) % 2 = 0

\* the present living, item or exit that a word names (None when it names nothing)
NamedBy(w) ==
    IF \E l \in livings[Here] : w \in {Name(l)} \cup Aliases(l)
    THEN CHOOSE l \in livings[Here] : w \in {Name(l)} \cup Aliases(l)
    ELSE IF \E t \in items[Here] \cup Inventory(Player) : w \in {Name(t)} \cup Aliases(t)
    THEN CHOOSE t \in items[Here] \cup Inventory(Player) : w \in {Name(t)} \cup Aliases(t)
    ELSE IF w \in DOMAIN exits[Here] THEN exits[Here][w]
    ELSE None

\* the referents word i stands for, in the order the line brings them up
RefsAt(i) ==
    LET w == Said[i]
    IN  IF w \in SelfWords THEN <<Player>>
        ELSE IF w \in AllWords THEN SelectSeq(call.lorder, LAMBDA l : l # Player)
        ELSE IF w = "them" THEN Keys(previously_parsed.who_info)
        ELSE IF NamedBy(w) # None THEN <<NamedBy(w)>>
        ELSE <<>>

\* r is brought up by word i / in exclusion mode by word i (an excluding
\* collective word clears every referent)
BroughtUp(r, i) == Contains(RefsAt(i), r)
ExcludedBy(r, i) == ~IncludedAt(i) /\ (BroughtUp(r, i) \/ Said[i] \in AllWords)
NeverExcluded(r) == \A i \in 1..Len(Said) : ~ExcludedBy(r, i)
\* the last time r comes up in the line, it is by name and in exclusion mode
LastNamedInExclusion(r) ==
    \E i \in 1..Len(Said) :
        /\ NamedBy(Said[i]) = r
        /\ ~IncludedAt(i)
        /\ \A j \in (i + 1)..Len(Said) : ~BroughtUp(r, j)

RECURSIVE Mentions(_)
\* the referents brought up by words i.. of the line, in order, with repetitions
Mentions(i) == IF i > Len(Said) THEN <<>> ELSE RefsAt(i) \o Mentions(i + 1)

RECURSIVE SaidArgs(_)
\* one args entry per mention: the word itself, or the names a pronoun stands for
SaidArgs(i) ==
    IF i > Len(Said) THEN <<>>
    ELSE (IF Said[i] = "them"
          THEN [k \in 1..Len(RefsAt(i)) |-> Name(RefsAt(i)[k])]
          ELSE <<Said[i]>>) \o SaidArgs(i + 1)

(***************************************************************************)
(* Claims on the who-map built by one parse()  (SpecRefs; C1: SpecRepeat)  *)
(***************************************************************************)
\* C1: for every accepted line, an actor or item whose last mention by name
\* stood in exclusion mode is absent from the returned who-map.
C1_ExcludedReferentAbsent ==
    ParsedOk => \A r \in Livings \cup Items : LastNamedInExclusion(r) => ~InWho(Who, r)

\* C2: an exit name met in exclusion mode is never added: an exit whose last
\* mention stood in exclusion mode is absent from the returned who-map.
C2_ExcludedExitAbsent ==
    ParsedOk => \A e \in Exits : LastNamedInExclusion(e) => ~InWho(Who, e)

\* C3: repeated inclusion-mode mentions of a referent fold into one who-map
\* entry at the place of its first mention: the keys are distinct, who_count
\* is the number of distinct referents, referents that are never excluded stand
\* in the order of their first mentions, and args holds one entry per mention
\* in input order.
C3_MentionsFold ==
    ParsedOk =>
        LET keys == Keys(Who)
            said == Mentions(1)
        IN  /\ Injective(keys)
            /\ outcome.parsed.who_count = Cardinality(Range(keys))
            /\ \A r \in Range(said) : NeverExcluded(r) => Contains(keys, r)
            /\ \A a, b \in Range(keys) :
                   NeverExcluded(a) /\ NeverExcluded(b) /\ Contains(said, a) /\ Contains(said, b)
                   => (FirstIndex(keys, a) < FirstIndex(keys, b)
                       <=> FirstIndex(said, a) < FirstIndex(said, b))
            /\ outcome.parsed.args = SaidArgs(1)

\* a referent named twice around another one is filed once, where it first came up
C3_Witness ==
    /\ ParsedOk
    /\ Said = <<"kate", "newspaper", "kate">>
    /\ Keys(Who) = <<"kate", "newspaper">>
    /\ outcome.parsed.who_count = 2
    /\ outcome.parsed.args = Said

\* the outcome of parsing the line cut after its k-th word, in the same snapshot
PrefixParse(k) ==
    parse(CallSnap, Line(<<call.cmd.words[1]>> \o SubSeq(Said, 1, k)), call.external_verbs)

\* C4: a referent's sequence is assigned when it is first inserted and no later
\* mention changes it: whatever sequence a referent has after a prefix of the
\* line, it still has in the result, unless it is excluded in between.
C4_SequenceFixed ==
    ParsedOk =>
        \A k \in 1..Len(Said) :
            LET pre == PrefixParse(k)
            IN  pre.kind = "ok" =>
                    \A r \in Objects :
                        (/\ InWho(pre.parsed.who_info, r)
                         /\ \A j \in (k + 1)..Len(Said) : ~ExcludedBy(r, j))
                        => /\ InWho(Who, r)
                           /\ Info(Who, r).sequence = Info(pre.parsed.who_info, r).sequence

(***************************************************************************)
(* Claim on repeated mentions  (SpecRepeat)                                *)
(***************************************************************************)
\* C5: parse() never fails with the duplicate-referent ParseError, whatever
\* the repeated mentions and exclusions of the line.
C5_NoDuplicateError ==
    call.op = "parse" => outcome.msg # <<"You can do only one thing at the same time with">>

(***************************************************************************)
(* Claims on the collective words  (SpecRefs)                              *)
(***************************************************************************)
\* word i is a pronoun that the remembered result resolves to the player
ResolvesToPlayer(i) ==
    /\ Said[i] \in Pronouns
    /\ LET prev == match_previously_parsed(CallSnap, Said[i])
       IN  prev.ok /\ \E k \in 1..Len(prev.matches) : prev.matches[k][1] = Player

\* word i is a self-reference word or the player's own name
SelfOrOwnName(i) == Said[i] \in SelfWords \cup {Name(Player)} \cup Aliases(Player)

\* a collective word in inclusion mode with no exclusion after it brings in
\* every other actor of the room
EveryoneElseIn ==
    \A i \in 1..Len(Said) :
        (/\ Said[i] \in AllWords
         /\ IncludedAt(i)
         /\ \A j \in (i + 1)..Len(Said) : IncludedAt(j))
        => \A l \in livings[Here] \ {Player} : InWho(Who, l)

\* C6 as stated: the collective words bring in every other actor, and the
\* player is in the who-map only if a self-reference word or the player's own
\* name stands in inclusion mode.
C6_PlayerOnlyBySelfWord ==
    ParsedOk =>
        /\ EveryoneElseIn
        /\ InWho(Who, Player) => \E i \in 1..Len(Said) : IncludedAt(i) /\ SelfOrOwnName(i)

\* C6 amended: ... only if a self-reference word, the player's own name, or a
\* pronoun that the remembered result resolves to the player stands in
\* inclusion mode.
C6_PlayerOnlyByReference ==
    ParsedOk =>
        /\ EveryoneElseIn
        /\ InWho(Who, Player) =>
               \E i \in 1..Len(Said) : IncludedAt(i) /\ (SelfOrOwnName(i) \/ ResolvesToPlayer(i))

\* "all" alone, in a room with the player and two others: the two others, not the player
C6_Witness ==
    /\ ParsedOk
    /\ Said = <<"all">>
    /\ livings[Here] = {"julie", "kate", "dino"}
    /\ Range(Keys(Who)) = {"kate", "dino"}

(***************************************************************************)
(* Claim on the memory of the Soul  (Spec)                                 *)
(***************************************************************************)
\* the referents of the remembered result that a pronoun can stand for
Remembered == Range(Keys(previously_parsed.who_info))

\* every referent of an accepted line made of pronouns comes from the
\* remembered result, and such a line is refused as unclear when the
\* remembered result is empty
PronounsReadMemory ==
    (call.op = "parse" /\ Said # <<>> /\ Range(Said) \subseteq Pronouns)
    => /\ outcome.kind = "ok" => Range(Keys(Who)) \subseteq Remembered
       /\ Remembered = {} => outcome = NotClear.error

\* a step that changes the memory is remember_previous_parse(parsed), made
\* with the result the caller holds
MemoryStep ==
    previously_parsed' # previously_parsed
    => /\ call.op \in {"parse", "process_verb_parsed"}
       /\ outcome.kind = "ok"
       /\ previously_parsed' = outcome.parsed
       /\ call'.op = "none"

\* C7: across any sequence of parse, process_verb, process_verb_parsed and
\* remember_previous_parse calls, the outcome of a parse is the one computed
\* from the result remembered last (the empty result at first), pronouns
\* resolve to referents of that result only, and no step other than
\* remember_previous_parse changes the memory.
C7_MemoryOnlyByRemember ==
    /\ [](call.op = "parse" => outcome = parse(CallSnap, call.cmd, call.external_verbs))
    /\ []PronounsReadMemory
    /\ [][MemoryStep]_vars

\* "her" finds kate, remembered from an earlier line, and the result of this
\* parse is not the remembered one
C7_Witness ==
    /\ ParsedOk
    /\ Said = <<"her">>
    /\ Keys(Who) = <<"kate">>
    /\ "kate" \in Remembered
    /\ previously_parsed # outcome.parsed

(***************************************************************************)
(* Claims on pronoun resolution  (SpecPronoun)                             *)
(***************************************************************************)
\* the remembered referents, in remembered order
RememberedSeq == Keys(previously_parsed.who_info)

\* the remembered referent at place i answers to the pronoun: its objective
\* form is the pronoun, or the pronoun is "it" and it is an exit bound here
Answers(i, pronoun) ==
    \/ pronoun = Objective(RememberedSeq[i])
    \/ pronoun = "it" /\ IsExitHere(CallSnap, RememberedSeq[i])

\* resolved: the line is accepted and stands for this one referent
ResolvesTo(a) == outcome.kind = "ok" /\ Keys(Who) = <<a>>
\* refused: the referent is no longer around
RefusedFor(a) == outcome = NoLongerAround(a).error

\* C8 as stated: any remembered actor whose objective pronoun is the word
\* is what the word resolves to while the actor is in the player's room, and
\* the line is refused with "... is no longer around." once it is not.
C8_PronounFindsActor ==
    (call.op = "parse" /\ Len(Said) = 1 /\ Said[1] \in {"him", "her", "it"})
    => \A a \in Livings \cap Remembered :
           Said[1] = Objective(a)
           => IF a \in livings[Here] THEN ResolvesTo(a) ELSE RefusedFor(a)

\* C8 amended: the first remembered referent, in remembered order, that
\* answers to the word decides; when it is an actor, the word resolves to it
\* while the actor is in the player's room, and the line is refused with
\* "... is no longer around." once it is not.
C8_FirstAnswerDecides ==
    (call.op = "parse" /\ Len(Said) = 1 /\ Said[1] \in {"him", "her", "it"})
    => \A i \in 1..Len(RememberedSeq) :
           (/\ RememberedSeq[i] \in Livings
            /\ Answers(i, Said[1])
            /\ \A j \in 1..(i - 1) : ~Answers(j, Said[1]))
           => IF RememberedSeq[i] \in livings[Here]
              THEN ResolvesTo(RememberedSeq[i])
              ELSE RefusedFor(RememberedSeq[i])

\* kate was remembered while in the room and has left: "her" is refused
C8_Witness ==
    /\ call.op = "parse"
    /\ Said = <<"her">>
    /\ RememberedSeq = <<"kate">>
    /\ location["kate"] # Here
    /\ outcome = ParseError(<<"is no longer around", "she">>)

\* C9: a remembered item that is in the player's room or holdings is
\* reachable: "them", or "it" for an item, is not refused on its account.
C9_ItemReachable ==
    (call.op = "parse" /\ Len(Said) = 1 /\ Said[1] \in {"them", "it"})
    => \A i \in 1..Len(RememberedSeq) :
           (/\ RememberedSeq[i] \in Items
            /\ RememberedSeq[i] \in items[Here] \cup Inventory(Player)
            /\ Said[1] = "it" => \A j \in 1..(i - 1) : ~Answers(j, "it"))
           => ~RefusedFor(RememberedSeq[i])

\* C10: for "it", an exit of the remembered result that is bound in the
\* player's room is returned under its direction, wherever it stands among
\* the remembered referents.
C10_ExitPreferred ==
    (call.op = "parse" /\ Said = <<"it">>)
    => \A e \in Remembered :
           IsExitHere(CallSnap, e)
           => /\ ResolvesTo(e)
              /\ outcome.parsed.args = <<DirectionOf(CallSnap, e)>>

(***************************************************************************)
(* Claims on check_name_with_spaces  (SpecNames)                           *)
(***************************************************************************)
NameCalled == call.op = "check_name_with_spaces"
\* the tokens from the start index on
Window == SubSeq(call.words, call.startindex, Len(call.words))
\* the candidate name of k tokens
Candidate(k) == Join(SubSeq(Window, 1, k))
InPools(n) == n \in DOMAIN call.all_livings \cup DOMAIN call.all_items \cup DOMAIN call.all_exits
\* the candidate lengths whose name is in a pool
Hits == {k \in 1..Len(Window) : InPools(Candidate(k))}

\* C15: candidate names of 1 up to 6 tokens are tested: a name of 6 tokens
\* in a pool (no shorter candidate being in one) is matched with 6 tokens
\* consumed, and no match consumes more than 6 tokens.
C15_SixTokensMatched ==
    NameCalled =>
        /\ outcome.wordcount <= 6
        /\ (6 \in Hits /\ \A k \in 1..5 : k \notin Hits)
           => outcome.name = Candidate(6) /\ outcome.wordcount = 6

\* C16: when two names of the pools match at the start index, one a
\* word-prefix of the other, the longer one is returned with all of its
\* tokens consumed (lengths within the five the loop tests).
C16_LongestMatch ==
    NameCalled =>
        \A j, k \in Hits :
            (j < k /\ k <= 5) => outcome.wordcount >= k /\ outcome.name = Candidate(outcome.wordcount)

Qualified == call.cmd.words # <<>> /\ call.cmd.words[1] \in ACTION_QUALIFIERS
SaidQualifier ==
    IF ~Qualified THEN ""
    ELSE IF call.cmd.words[1] = "dont" THEN "don't" ELSE call.cmd.words[1]
Unqualified == IF Qualified THEN Tail(call.cmd.words) ELSE call.cmd.words
Command ==
    IF Unqualified # <<>> /\ Unqualified[1] \in skip_words THEN Tail(Unqualified) ELSE Unqualified
\* the first token of the command and the tokens after it
FirstToken == Command[1]
Rest == Tail(Command)
External == Command # <<>> /\ FirstToken \in call.external_verbs
Catalog == Command # <<>> /\ ~External /\ FirstToken \in VERBS
MovementRefused ==
    outcome.kind = "ParseError" /\ outcome.msg # <<>>
    /\ outcome.msg[1] \in {"where?", "You can't go there", "What do you want to do with that?"}

\* what parse() gives for the line of the call (the input of the rendering)
Given == parse(CallSnap, call.cmd, call.external_verbs)

\* C11: the first token is resolved by strict precedence: in the external
\* set it is the verb of an accepted line whose other tokens all go to args
\* (no exit or catalog handling); else in the catalog it is a soul verb even
\* when an exit carries its name; exits and movement verbs are tried only
\* when neither applies; the verb token is not in args.
C11_VerbPrecedence ==
    call.op = "parse" =>
        /\ External =>
               /\ outcome.kind = "ok"
               /\ outcome.parsed.verb = FirstToken
               /\ outcome.parsed.args = Rest
        /\ Catalog =>
               /\ outcome.kind # "NonSoulVerbError" /\ ~MovementRefused
               /\ outcome.kind = "ok" =>
                      /\ outcome.parsed.verb = FirstToken
                      /\ outcome.parsed.unrecognized = <<>>
                      /\ Len(outcome.parsed.args) = Len(Rest)
        /\ (outcome.kind = "NonSoulVerbError" \/ MovementRefused) => ~External /\ ~Catalog

\* "smile" is external, a catalog verb and the name of an exit: it is taken as external
C11_Witness ==
    /\ call.op = "parse"
    /\ call.cmd.words = <<"smile", "frob">>
    /\ call.external_verbs = {"smile"}
    /\ "smile" \in DOMAIN exits[Here]
    /\ outcome.kind = "ok"
    /\ outcome.parsed.verb = "smile"
    /\ outcome.parsed.unrecognized = <<"frob">>

\* the tokens that have to name an exit: the command without its movement verb
ExitWords == IF FirstToken \in MOVEMENT_VERBS THEN Rest ELSE Command

C13_ExternalNotRendered ==
    /\ (call.op = "process_verb" /\ External)
       => /\ outcome.kind = "NonSoulVerbError"
          /\ outcome.parsed = Given.parsed
          /\ outcome.parsed.verb = FirstToken
          /\ outcome.parsed.args = Rest
          /\ outcome.targets = {}
    /\ (call.op = "process_verb" /\ call.external_verbs = {} /\ Given.kind = "ok")
       => outcome = process_verb_parsed(Player, Given.parsed)
    /\ (call.op = "parse" /\ External) => outcome.kind = "ok"

\* "smile kate" with smile external: not rendered, the result names kate
C13_Witness ==
    /\ call.op = "process_verb"
    /\ call.cmd.words = <<"smile", "kate">>
    /\ call.external_verbs = {"smile"}
    /\ outcome.kind = "NonSoulVerbError"
    /\ Keys(outcome.parsed.who_info) = <<"kate">>
    /\ outcome.targets = {}

\* C14: a line without a verb, made of names of present actors and items:
\* with exactly one distinct referent named (however many times) the verb is
\* "examine" and the referent is in the who-map; otherwise UnknownVerbError.
C14_OneReferentDefaultVerb ==
    (/\ call.op = "parse"
     /\ Command # <<>> /\ ~External /\ ~Catalog
     /\ \A i \in 1..Len(Command) : NamedBy(Command[i]) \in Livings \cup Items)
    => IF Cardinality({NamedBy(Command[i]) : i \in 1..Len(Command)}) = 1
       THEN /\ outcome.kind = "ok"
            /\ outcome.parsed.verb = "examine"
            /\ InWho(outcome.parsed.who_info, NamedBy(Command[1]))
       ELSE outcome.kind = "UnknownVerbError"

\* a token that no branch of the loop matches: no name of something present,
\* no word with a meaning of its own
UnmatchedToken(w) ==
    /\ NamedBy(w) = None
    /\ w \notin Pronouns \cup SelfWords \cup AllWords \cup ExceptWords \cup {"everything"}
    /\ w \notin Range(ADVERBS) \cup BODY_PARTS \cup skip_words
\* a prefix of the name or an alias of an actor or item that is present
NamePrefix(w) ==
    \E o \in livings[Here] \cup items[Here] \cup Inventory(Player) :
        \E n \in {Name(o)} \cup Aliases(o) : startswith(n, w)

RECURSIVE Embeds(_, _)
\* u is a subsequence of a
Embeds(u, a) ==
    IF u = <<>> THEN TRUE
    ELSE IF a = <<>> THEN FALSE
    ELSE IF u[1] = a[1] THEN Embeds(Tail(u), Tail(a))
    ELSE Embeds(u, Tail(a))

\* unrecognized is filled only under an external verb, from args and in order
UnrecognizedFromArgs ==
    ParsedOk =>
        /\ outcome.parsed.unrecognized # <<>> => External
        /\ Embeds(outcome.parsed.unrecognized, outcome.parsed.args)
\* under an external verb an unmatched token that is no name prefix is recorded
UnmatchedRecorded ==
    (call.op = "parse" /\ External /\ \A i \in 1..Len(Rest) : ~NamePrefix(Rest[i]))
    => /\ outcome.kind = "ok"
       /\ \A i \in 1..Len(Rest) :
              UnmatchedToken(Rest[i]) => Contains(outcome.parsed.unrecognized, Rest[i])

\* C20 as stated: ... and under a soul verb a line with such a token is refused.
C20_UnmatchedRefused ==
    /\ UnrecognizedFromArgs
    /\ UnmatchedRecorded
    /\ (call.op = "parse" /\ Catalog /\ \E i \in 1..Len(Rest) : UnmatchedToken(Rest[i]))
       => outcome.kind # "ok"

\* C20 amended: ... and under a soul verb that takes no message a line with
\* such a token is refused, unless the token is a prefix of exactly one adverb.
C20_UnmatchedRefusedUnlessAdverb ==
    /\ UnrecognizedFromArgs
    /\ UnmatchedRecorded
    /\ (/\ call.op = "parse" /\ Catalog /\ ~VerbWantsMessage(FirstToken)
        /\ \E i \in 1..Len(Rest) :
               UnmatchedToken(Rest[i]) /\ Len(search_prefix(Rest[i])) # 1)
       => outcome.kind # "ok"

\* under the external verb frob, "crawl" is recorded and kate is still matched
C20_Witness ==
    /\ call.op = "parse"
    /\ call.cmd.words = <<"frob", "crawl", "kate">>
    /\ call.external_verbs = {"frob"}
    /\ outcome.kind = "ok"
    /\ outcome.parsed.unrecognized = <<"crawl">>
    /\ outcome.parsed.args = <<"crawl", "kate">>
    /\ Keys(outcome.parsed.who_info) = <<"kate">>

(***************************************************************************)
(* Claims on the rendering  (SpecRender)                                   *)
(***************************************************************************)
Rendering == call.op \in {"process_verb", "process_verb_parsed"}

\* C18: the referent set returned by process_verb_parsed and process_verb is
\* the set of referents of the parse result's who-map without the acting
\* player: the player is never in it and no other referent is missing.
C18_TargetsWithoutPlayer ==
    (Rendering /\ outcome.kind = "ok")
    => /\ Player \notin outcome.targets
       /\ \A r \in Objects \ {Player} : r \in outcome.targets <=> InWho(Given.parsed.who_info, r)

\* "smile me kate": the who-map holds the player and kate, the returned set only kate
C18_Witness ==
    /\ call.op = "process_verb_parsed"
    /\ call.cmd.words = <<"smile", "me", "kate">>
    /\ outcome.kind = "ok"
    /\ InWho(Given.parsed.who_info, Player)
    /\ outcome.targets = {"kate"}

\* the templates selected for rendering a result
SelectedTemplates(parsed) ==
    IF VerbType(parsed.verb) = "DEUX"
    THEN {VerbData(parsed.verb, 2), VerbData(parsed.verb, 3)}
    ELSE IF VerbType(parsed.verb) = "QUAD"
    THEN IF parsed.who_info # <<>>
         THEN {VerbData(parsed.verb, 4), VerbData(parsed.verb, 5)}
         ELSE {VerbData(parsed.verb, 2), VerbData(parsed.verb, 3)}
    ELSE {ReplaceAt(ShapeAction(parsed), parsed)}

\* C19: for every verb shape, when a template selected for rendering holds a
\* WHO or POSS placeholder and the result has no referent, the rendering
\* fails with the ParseError "The verb <verb> needs a person.".
C19_NeedsPerson ==
    (/\ Rendering
     /\ Given.kind = "ok"
     /\ Given.parsed.verb \in VERBS
     /\ Given.parsed.who_info = <<>>
     /\ \E t \in SelectedTemplates(Given.parsed) : "WHO" \in t \/ "POSS" \in t)
    => outcome = ParseError(<<"needs a person", Given.parsed.verb>>)

(***************************************************************************)
(* Claims on adverbs  (SpecAdverbs)                                        *)
(***************************************************************************)
\* the outcome of parsing the line cut after the k-th word after the verb
\* (the quoted message kept), in the same snapshot
Upto(k) ==
    parse(CallSnap, Cmd(<<call.cmd.words[1]>> \o SubSeq(Said, 1, k), call.cmd.quote, call.cmd.ws),
          call.external_verbs)
\* the adverb accepted once the words before word j are read ("" when none, or
\* when these words are refused)
AdverbBefore(j) == IF Upto(j - 1).kind = "ok" THEN Upto(j - 1).parsed.adverb ELSE ""
UniquePrefix(w) == w \notin Range(ADVERBS) /\ Len(search_prefix(w)) = 1
\* word j is an adverb: an adverb word, or under a soul verb a unique adverb prefix
IsAdverb(j) == Said[j] \in Range(ADVERBS) \/ (Catalog /\ UniquePrefix(Said[j]))
AdverbOf(j) == IF Said[j] \in Range(ADVERBS) THEN Said[j] ELSE search_prefix(Said[j])[1]
\* word j goes to the message text of a verb that takes a message: the text
\* has been started by a word before it, or word j, matching nothing, starts it
InMessage(j) ==
    /\ Catalog /\ VerbWantsMessage(FirstToken) /\ call.cmd.quote = <<>>
    /\ (Upto(j - 1).kind = "ok" /\ Upto(j - 1).parsed.message # "") \/ Said[j] \notin Range(ADVERBS)
Both(a, b) == ParseError(<<"You can't do that both", a, b>>)
\* the adverb accepted after a prefix of the line is the adverb of the result
AdverbKept ==
    \A j \in 1..Len(Said) : (outcome.kind = "ok" /\ AdverbBefore(j) # "") => outcome.parsed.adverb = AdverbBefore(j)

\* C21 as stated: once an adverb is accepted, a later word that is a
\* different adverb makes parse fail with the ParseError naming both, and the
\* adverb accepted first is never replaced.
C21_SecondAdverbRefused ==
    call.op = "parse" =>
        /\ AdverbKept
        /\ \A j \in 1..Len(Said) :
               (AdverbBefore(j) # "" /\ IsAdverb(j) /\ AdverbOf(j) # AdverbBefore(j))
               => outcome = Both(AdverbBefore(j), AdverbOf(j))

\* C21 amended: ... a later word that is a different adverb and does not go
\* to the message text (a prefix being no prefix of a present name) makes
\* parse fail with the ParseError naming both, and the adverb accepted first
\* is never replaced.
C21_SecondAdverbOutsideMessage ==
    call.op = "parse" =>
        /\ AdverbKept
        /\ \A j \in 1..Len(Said) :
               (/\ AdverbBefore(j) # "" /\ IsAdverb(j) /\ AdverbOf(j) # AdverbBefore(j)
                /\ ~InMessage(j)
                /\ UniquePrefix(Said[j]) => ~NamePrefix(Said[j]))
               => outcome = Both(AdverbBefore(j), AdverbOf(j))

\* "smile sic kate hap": sickly came from a prefix, the prefix of happily is refused
C21_Witness ==
    /\ call.op = "parse"
    /\ call.cmd.words = <<"smile", "sic", "kate", "hap">>
    /\ call.external_verbs = {}
    /\ AdverbBefore(3) = "sickly"
    /\ outcome = Both("sickly", "happily")

\* the words before word j are accepted: the loop reaches word j
Reached(j) == Upto(j - 1).kind = "ok"
\* word j is no adverb word and a prefix of at least one adverb
AdverbPrefix(j) == Said[j] \notin Range(ADVERBS) /\ Len(search_prefix(Said[j])) >= 1
\* word j is taken as the adverb it is the only prefix of
Adopted(j) ==
    /\ Upto(j).kind = "ok"
    /\ Upto(j).parsed.adverb = search_prefix(Said[j])[1]
    /\ Upto(j).parsed.args = Append(Upto(j - 1).parsed.args, search_prefix(Said[j])[1])
    /\ Upto(j).parsed.unrecognized = <<>>
\* word j is kept as it is, as an unrecognized argument
KeptVerbatim(j) ==
    /\ Upto(j).kind = "ok"
    /\ Upto(j).parsed.adverb = Upto(j - 1).parsed.adverb
    /\ Upto(j).parsed.args = Append(Upto(j - 1).parsed.args, Said[j])
    /\ Upto(j).parsed.unrecognized = Append(Upto(j - 1).parsed.unrecognized, Said[j])
WhichAdverb(w) == ParseError(<<"What adverb did you mean">> \o search_prefix(w))

\* C22 as stated: under a soul verb a word that is a prefix of exactly one
\* adverb is taken as that adverb, a prefix of two or more adverbs makes parse
\* fail with the ParseError listing the candidates; under an external verb
\* the word is kept verbatim as an unrecognized argument.
C22_PrefixExpanded ==
    call.op = "parse" =>
        \A j \in 1..Len(Said) :
            (Reached(j) /\ AdverbPrefix(j)) =>
                /\ (Catalog /\ UniquePrefix(Said[j]) /\ AdverbBefore(j) = "") => Adopted(j)
                /\ (Catalog /\ Len(search_prefix(Said[j])) >= 2) => outcome = WhichAdverb(Said[j])
                /\ External => KeptVerbatim(j)

\* C22 amended: ... for a word that is no prefix of the name of a present
\* actor or item, and under a soul verb that is not waiting for its message
\* text (it takes none, or a quoted message was given).
C22_PrefixExpandedOutsideMessage ==
    call.op = "parse" =>
        \A j \in 1..Len(Said) :
            (Reached(j) /\ AdverbPrefix(j) /\ ~NamePrefix(Said[j]) /\ ~InMessage(j)) =>
                /\ (Catalog /\ UniquePrefix(Said[j]) /\ AdverbBefore(j) = "") => Adopted(j)
                /\ (Catalog /\ Len(search_prefix(Said[j])) >= 2) => outcome = WhichAdverb(Said[j])
                /\ External => KeptVerbatim(j)

\* "smile kate si": two adverbs start with si, both are listed in catalog order
C22_Witness ==
    /\ call.op = "parse"
    /\ call.cmd.words = <<"smile", "kate", "si">>
    /\ call.external_verbs = {}
    /\ outcome = ParseError(<<"What adverb did you mean", "sickly", "sideways">>)

(***************************************************************************)
(* Claim on body parts  (SpecBody)                                         *)
(***************************************************************************)
\* the word is the name or an alias of an actor or item that is present
IsName(w) ==
    \E o \in livings[Here] \cup items[Here] \cup Inventory(Player) : w \in {Name(o)} \cup Aliases(o)
\* the body part accepted once the words before word j are read
BodyBefore(j) == IF Upto(j - 1).kind = "ok" THEN Upto(j - 1).parsed.bodypart ELSE ""
\* word j is accepted as the body part
BodyAccepted(j) ==
    /\ Said[j] \in BODY_PARTS
    /\ Reached(j) /\ BodyBefore(j) = ""
    /\ Upto(j).kind = "ok" /\ Upto(j).parsed.bodypart = Said[j]

\* C23: a body-part word is accepted as the body part only when it is not
\* the name of a present actor or item, or when the word before it is "my";
\* once a body part is accepted, a second body-part word makes parse fail
\* with the ParseError naming both parts.
C23_BodyPartOnce ==
    call.op = "parse" =>
        \A j \in 1..Len(Said) :
            /\ BodyAccepted(j) => (~IsName(Said[j]) \/ (j > 1 /\ Said[j - 1] = "my"))
            /\ (Reached(j) /\ BodyBefore(j) # "" /\ Said[j] \in BODY_PARTS)
               => outcome = Both(BodyBefore(j), Said[j])

(***************************************************************************)
(* Claims on ParseResult  (SpecConstruct)                                  *)
(***************************************************************************)
Constructed == call.op = "ParseResult"

\* C24: a ParseResult constructed from who_list alone raises ParseError when
\* the list holds a referent twice and otherwise succeeds with the referents
\* in list order, each with its list position as sequence; with a non-empty
\* who_info the who_list is ignored and no duplicate check is made.
C24_ListChecked ==
    Constructed =>
        IF call.who_info # <<>>
        THEN /\ outcome.kind = "ok"
             /\ outcome.parsed.who_info = call.who_info
             /\ outcome.parsed.who_count = Len(call.who_info)
        ELSE IF ~Injective(call.who_list)
        THEN outcome.kind = "ParseError"
        ELSE /\ outcome.kind = "ok"
             /\ Keys(outcome.parsed.who_info) = call.who_list
             /\ \A i \in 1..Len(call.who_list) : outcome.parsed.who_info[i].sequence = i - 1
             /\ outcome.parsed.who_count = Len(call.who_list)

\* kate listed twice around the dinosaur, no who_info: refused
C24_Witness ==
    /\ Constructed
    /\ call.who_info = <<>>
    /\ call.who_list = <<"kate", "dino", "kate">>
    /\ outcome.kind = "ParseError"

\* the referent at place i of the who-map of the result read, None past its end
Referent(i) == IF i <= Len(outcome.parsed.who_info) THEN outcome.parsed.who_info[i].who ELSE None

\* C25: for a result whose who-map holds r1..rn in mention order, who_1 is
\* r1 (None when n = 0), who_12 and who_123 are the first two and three
\* referents padded with None to length 2 and 3, who_last is rn (None when
\* n = 0).
C25_WhoAccessors ==
    call.op = "who" =>
        /\ outcome.who_1 = Referent(1)
        /\ outcome.who_12 = <<Referent(1), Referent(2)>>
        /\ outcome.who_123 = <<Referent(1), Referent(2), Referent(3)>>
        /\ outcome.who_last =
               IF outcome.parsed.who_info = <<>> THEN None ELSE Referent(Len(outcome.parsed.who_info))

\* two referents: who_123 is padded with one None, who_last is the second
C25_Witness ==
    /\ call.op = "who"
    /\ call.who_list = <<"kate", "dino">>
    /\ call.who_info = <<>>
    /\ outcome.who_1 = "kate"
    /\ outcome.who_123 = <<"kate", "dino", None>>
    /\ outcome.who_last = "dino"

\* what IS and SUBJ became in the player's and in the room's sentence ("" for
\* a placeholder the template does not hold)
PlayerFix == outcome.msg[1]
RoomFix == outcome.msg[2]

\* C26: the IS and SUBJ placeholders of the player's and the room's sentence
\* become "is" and a subjective pronoun when the result has no referent or
\* one referent, and "are" and "they" exactly when it has two or more.
C26_PluralFromTwo ==
    (Rendering /\ outcome.kind = "ok")
    => IF Given.parsed.who_count >= 2
       THEN /\ {PlayerFix[1], RoomFix[1]} \subseteq {"", "are"}
            /\ {PlayerFix[2], RoomFix[2]} \subseteq {"", "they"}
       ELSE /\ {PlayerFix[1], RoomFix[1]} \subseteq {"", "is"}
            /\ {PlayerFix[2], RoomFix[2]} \subseteq {"", "she", "he", "it"}

(***************************************************************************)
(* Claim on the world model  (SpecFrame)                                   *)
(***************************************************************************)
\* the step is a call of parse(), process_verb() or process_verb_parsed()
SoulCall == call' # call /\ call'.op \in {"parse", "process_verb", "process_verb_parsed"}

\* C27: parse(), process_verb() and process_verb_parsed() leave the world
\* unchanged whether they return or raise: the actor sets, the item sets, the
\* exit tables and the locations are after the call what they were before.
C27_WorldUnchanged ==
    [][SoulCall => /\ location' = location /\ livings' = livings
                   /\ items' = items /\ exits' = exits]_vars

\* a call that raised and one that returned, in a world that has changed
\* since the start: kate has left, "smile newspaper" is accepted and rendered
C27_Witness ==
    /\ call.op = "process_verb_parsed"
    /\ call.cmd.words = <<"smile", "newspaper">>
    /\ outcome.kind = "ok"
    /\ location["kate"] = "limbo"
    /\ "newspaper" \in items[Here]

(***************************************************************************)
(* Claim on determinism  (SpecRefs)                                        *)
(***************************************************************************)
\* C28: parse() is deterministic: a call with the same line and external
\* verbs, against the same room membership, exit table and memory, gives the
\* same outcome, the same error or a result equal in every field, the order
\* of the who-map included.
C28_Deterministic ==
    call.op = "parse" =>
        \A snap \in Snapshots(Player) : parse(snap, call.cmd, call.external_verbs) = outcome

(***************************************************************************)
(* C29: after any sequence of subscribe, unsubscribe and unsubscribe_all   *)
(* calls, one send on a topic invokes exactly the listeners that are       *)
(* subscribed to it at that moment, each exactly once and with the topic's *)
(* name and the event: a listener is subscribed when one of its subscribe  *)
(* calls on the topic is followed by no unsubscribe of it from the topic   *)
(* and by no unsubscribe_all of it, so a second subscribe adds nothing, an *)
(* unsubscribed listener gets nothing, and an unsubscribe or a repeated    *)
(* unsubscribe_all of a listener that is not subscribed changes nothing.   *)
(* (A listener its owner has let go of no longer exists and is not         *)
(* invoked.)                                                               *)
(***************************************************************************)
\* the caller's last call was a send
JustSent == log # <<>> /\ log[Len(log)].op = "send"
\* by the calls before the last one, listener l is subscribed to the topic named n
SubscribedTo(l, n) ==
    \E i \in 1..(Len(log) - 1) :
        /\ log[i] = Did("subscribe", n, l, "")
        /\ \A j \in (i + 1)..(Len(log) - 1) :
              /\ log[j] # Did("unsubscribe", n, l, "")
              /\ log[j] # Did("unsubscribe_all", "", l, "")
\* how often the last send invoked listener l
Invocations(l) == Cardinality({i \in 1..Len(delivered) : delivered[i][1] = l})

C29_SendReachesSubscribed ==
    JustSent =>
        /\ \A l \in Listeners :
              Invocations(l) = IF SubscribedTo(l, log[Len(log)].topic) /\ l \in alive THEN 1 ELSE 0
        /\ \A i \in 1..Len(delivered) :
              delivered[i] = <<delivered[i][1], log[Len(log)].topic, log[Len(log)].event>>

\* subscribed twice, the other listener unsubscribed without being subscribed,
\* then one send: one invocation
C29_Witness ==
    /\ log = <<Did("subscribe", "a", "l1", ""), Did("subscribe", "a", "l1", ""),
               Did("unsubscribe_all", "", "l2", ""), Did("send", "a", "", "e")>>
    /\ delivered = << <<"l1", "a", "e">> >>

(***************************************************************************)
(* C30: Bus.topic(name) returns the same Topic object for the same name on *)
(* every call and distinct objects for distinct names; however the calls   *)
(* of several threads interleave, at most one Topic is ever created per    *)
(* name, and the listener of every finished Bus.subscribe is a subscriber  *)
(* of the topic registered under the name.                                 *)
(***************************************************************************)
\* thread t has finished a call of Bus.topic or Bus.subscribe for name n
HasReturned(t, n) ==
    /\ threads[t].pc = "idle" /\ threads[t].op \in {"topic", "subscribe"}
    /\ threads[t].name = n /\ threads[t].error = ""
\* the Topic objects ever created for name n
CreatedFor(n) == {i \in DOMAIN heap : heap[i].name = n}
\* what the claim says of name n
OneTopic(n) ==
    /\ Cardinality(CreatedFor(n)) <= 1
    /\ \A t \in Threads : HasReturned(t, n) =>
          /\ threads[t].result \in CreatedFor(n)
          /\ \A u \in Threads : HasReturned(u, n) => threads[u].result = threads[t].result
          /\ threads[t].op = "subscribe" =>
                /\ n \in DOMAIN bus.topics
                /\ threads[t].listener \in heap[bus.topics[n]].subscribers
\* remove_topic(n) has been called
WasRemoved(n) == \E i \in 1..Len(log) : log[i] = Did("remove_topic", n, "", "")

C30_OneTopicPerName == \A n \in TopicNames : OneTopic(n)

(***************************************************************************)
(* C30, amended: the same, for every name that remove_topic has not been   *)
(* called with; the objects returned for distinct names are distinct in    *)
(* every case.                                                             *)
(***************************************************************************)
C30_OneTopicPerNameKept ==
    /\ \A n \in TopicNames : ~WasRemoved(n) => OneTopic(n)
    /\ \A t, u \in Threads, n, m \in TopicNames :
          HasReturned(t, n) /\ HasReturned(u, m) /\ n # m => threads[t].result # threads[u].result

\* both threads have subscribed to "b", which was never removed: one topic,
\* both listeners in it
C30_Witness ==
    /\ ~WasRemoved("b")
    /\ HasReturned("t1", "b") /\ HasReturned("t2", "b")
    /\ threads["t1"].op = "subscribe" /\ threads["t2"].op = "subscribe"
    /\ threads["t1"].listener = "l1" /\ threads["t2"].listener = "l2"
    /\ heap[bus.topics["b"]].subscribers = {"l1", "l2"}
    /\ WasRemoved("a")

(***************************************************************************)
(* C31: once a topic has been removed from the bus, a send on the removed  *)
(* topic (on the Topic object or through the Bus by its name) invokes none *)
(* of its subscribers, and a second removal of the same name raises no     *)
(* error.                                                                  *)
(***************************************************************************)
\* the caller's last call and the calls before it
LastDid == log[Len(log)]
RemovedBefore(n) == \E i \in 1..(Len(log) - 1) : log[i] = Did("remove_topic", n, "", "")

C31_RemovedTopicSilent ==
    log # <<>> =>
        /\ LastDid.op \in {"send", "bus_send"} /\ RemovedBefore(LastDid.topic) => delivered = <<>>
        /\ LastDid.op = "remove_topic" /\ RemovedBefore(LastDid.topic) => threads[Caller].error = ""

(***************************************************************************)
(* C32: a pronoun met in exclusion mode whose referent is not in the       *)
(* who-map leaves the who-map as it is and parsing goes on, with the       *)
(* resolved name put in args: once the words before the pronoun are read   *)
(* and the pronoun resolves (no ParseError from the resolution), the line  *)
(* up to the pronoun is read too, the who-map has gained nothing and lost  *)
(* at most referents it held, and args has grown.                          *)
(***************************************************************************)
\* word j is a pronoun in exclusion mode, and the words before it are read
ExcludedPronoun(j) ==
    /\ Said[j] \in Pronouns
    /\ ~IncludedAt(j)
    /\ PrefixParse(j - 1).kind = "ok"
    /\ PrefixParse(j).kind # "ParseError"

C32_ExcludedPronounHarmless ==
    call.op = "parse" =>
        \A j \in 1..Len(Said) :
            ExcludedPronoun(j) =>
                /\ PrefixParse(j).kind = "ok"
                /\ Range(Keys(PrefixParse(j).parsed.who_info)) \subseteq
                       Range(Keys(PrefixParse(j - 1).parsed.who_info))
                /\ Len(PrefixParse(j).parsed.args) > Len(PrefixParse(j - 1).parsed.args)

(***************************************************************************)
(* C33: free-text message collection starts only under a verb whose        *)
(* template needs a message, only when the line held no quoted message,    *)
(* and at the first word that matches nothing else; from that word on      *)
(* every word is appended as it is to the message and to args, and the     *)
(* who-map, the adverb and the body part stay what they were, whatever the *)
(* later words name.  With a quoted message the message is the quoted one. *)
(***************************************************************************)
\* word w is no pronoun, self-reference, body part, "all" word, "except" word,
\* adverb or name of something present
MatchesNothing(w) ==
    /\ w \notin Pronouns \cup SelfWords \cup BODY_PARTS \cup AllWords \cup ExceptWords
    /\ w # "everything"
    /\ w \notin Range(ADVERBS)
    /\ NamedBy(w) = None
\* the verb takes a message and none was quoted
AwaitsMessage == Catalog /\ VerbWantsMessage(FirstToken) /\ call.cmd.quote = <<>>
\* the message is being collected once the words before word j are read
Collecting(j) == call.cmd.quote = <<>> /\ Reached(j) /\ Upto(j - 1).parsed.message # ""
\* word j is appended as it is, and nothing else changes
AppendedVerbatim(j) ==
    /\ Upto(j).kind = "ok"
    /\ Upto(j).parsed.message = Join(SelectSeq(<<Upto(j - 1).parsed.message, Said[j]>>, LAMBDA m : m # ""))
    /\ Upto(j).parsed.args = Append(Upto(j - 1).parsed.args, Said[j])
    /\ Upto(j).parsed.who_info = Upto(j - 1).parsed.who_info
    /\ Upto(j).parsed.adverb = Upto(j - 1).parsed.adverb
    /\ Upto(j).parsed.bodypart = Upto(j - 1).parsed.bodypart

C33_MessageCollection ==
    call.op = "parse" =>
        \A j \in 1..Len(Said) :
            /\ Collecting(j) => AwaitsMessage /\ AppendedVerbatim(j)
            /\ (Reached(j) /\ ~Collecting(j) /\ Upto(j).kind = "ok" /\ call.cmd.quote = <<>>
                    /\ Upto(j).parsed.message # "")
                   => AwaitsMessage /\ MatchesNothing(Said[j]) /\ AppendedVerbatim(j)
            /\ (Reached(j) /\ ~Collecting(j) /\ AwaitsMessage /\ MatchesNothing(Said[j]))
                   => AppendedVerbatim(j)
            /\ (Upto(j).kind = "ok" /\ call.cmd.quote # <<>>)
                   => Upto(j).parsed.message = call.cmd.quote[2]

\* "say zork kate sickly": the message starts at zork; kate and sickly are text
C33_Witness ==
    /\ ParsedOk
    /\ call.cmd.words = <<"say", "zork", "kate", "sickly">> /\ call.cmd.quote = <<>>
    /\ call.external_verbs = {}
    /\ outcome.parsed.message = "zork kate sickly"
    /\ outcome.parsed.args = <<"zork", "kate", "sickly">>
    /\ outcome.parsed.who_info = <<>> /\ outcome.parsed.adverb = ""

(***************************************************************************)
(* C34: whenever a word that matches nothing, outside the message text, at *)
(* any position of the line, is a prefix of exactly one name or alias of a *)
(* present actor or item, parse fails with the ParseError "Perhaps you     *)
(* meant <that name>?".                                                    *)
(***************************************************************************)
\* the names and aliases of the present actors and items that start with w
NamesStarting(w) ==
    {n \in UNION {{Name(o)} \cup Aliases(o) : o \in livings[Here] \cup items[Here] \cup Inventory(Player)} :
        startswith(n, w)}
\* word j matches nothing, is outside the message text and starts one name
HintDue(j) ==
    /\ Reached(j)
    /\ MatchesNothing(Said[j]) /\ Said[j] \notin skip_words
    /\ ~AwaitsMessage
    /\ Cardinality(NamesStarting(Said[j])) = 1
Hinted(j) ==
    /\ Upto(j) = ParseError(<<"Perhaps you meant", CHOOSE n \in NamesStarting(Said[j]) : TRUE>>)
    /\ outcome = Upto(j)

Asked(op) == call.op = op /\ call.target # None
ToSelf == call.target = call.actor
Watching == call.target = call.observer

C35_WhoPossWording ==
    /\ Asked("who_replacement") =>
          outcome = Word(IF ToSelf /\ Watching THEN "yourself"
                         ELSE IF ToSelf THEN Objective(call.actor) \o "self"
                         ELSE IF Watching THEN "you"
                         ELSE Title(call.target))
    /\ Asked("poss_replacement") =>
          outcome = Word(IF ToSelf /\ Watching THEN "your own"
                         ELSE IF ToSelf THEN Possessive(call.actor) \o " own"
                         ELSE IF Watching THEN "your"
                         ELSE lang_possessive(Title(call.target)))

\* kate does something to herself, watched by julie
C35_Witness ==
    /\ call = [op |-> "who_replacement", actor |-> "kate", target |-> "kate", observer |-> "julie"]
    /\ outcome = Word("herself")

(***************************************************************************)
(* C36: every failing parse() call fails with ParseError or one of its     *)
(* subclasses UnknownVerbError and NonSoulVerbError; no other kind of      *)
(* error escapes, whatever the line, the world and the parse memory.       *)
(***************************************************************************)
C36_OnlyParseErrors ==
    call.op = "parse" => outcome.kind \in {"ok", "ParseError", "UnknownVerbError", "NonSoulVerbError"}

(***************************************************************************)
(* C37: Bus.unsubscribe(topic, listener) on an existing topic terminates:  *)
(* a thread that has entered it comes back, with the lock released and the *)
(* listener out of the topic's subscribers, and a thread that has entered  *)
(* Bus.topic or Bus.subscribe comes back too.                              *)
(***************************************************************************)
Inside(t) == threads[t].pc # "idle"
Back(t) ==
    /\ threads[t].pc = "idle"
    /\ bus.lock # t
    /\ threads[t].op = "unsubscribe" =>
          threads[t].listener \notin heap[bus.topics[threads[t].name]].subscribers

C37_UnsubscribeReturns == \A t \in Threads : Inside(t) ~> Back(t)

(***************************************************************************)
(* C38: Topic.send delivers the event to every listener that was           *)
(* subscribed when the send started and then returns normally, even when a *)
(* callback subscribes or unsubscribes a listener on the same topic during *)
(* the delivery.                                                           *)
(***************************************************************************)
SendOver == threads[Caller].op = "send" /\ threads[Caller].pc = "idle"

C38_SendCompletes ==
    SendOver =>
        /\ threads[Caller].error = ""
        /\ \A l \in threads[Caller].started :
              \E i \in 1..Len(delivered) :
                  delivered[i] = <<l, threads[Caller].name, threads[Caller].event>>

(***************************************************************************)
(* C39: every referent in the who-map of a result returned by parse() is   *)
(* present at the time of the call: it is the acting player, an actor in   *)
(* the player's room, an item in the room or in the player's holdings, or  *)
(* an exit in the room's exit table; a referent that only the parse memory *)
(* knows and that is no longer present never enters the who-map.           *)
(***************************************************************************)
Present(who) ==
    \/ who = Player
    \/ who \in livings[Here]
    \/ who \in items[Here] \cup Inventory(Player)
    \/ \E d \in DOMAIN exits[Here] : exits[Here][d] = who

C39_WhoMapPresent == ParsedOk => \A i \in 1..Len(Who) : Present(Who[i].who)

\* the dinosaur and kate are remembered, the dinosaur has left: "her" gives kate
C39_Witness ==
    /\ ParsedOk
    /\ Said = <<"her">>
    /\ Keys(previously_parsed.who_info) = <<"dino", "kate">>
    /\ location["dino"] = "limbo"
    /\ Keys(Who) = <<"kate">>

(***************************************************************************)
(* C40: after any sequence of Living.move calls, every actor that has been *)
(* moved is a member of the actor set of exactly one location, the one its *)
(* location attribute refers to; move(loc) takes it out of the set of the  *)
(* location it was in and puts it into the set of loc, and a move to the   *)
(* location it is in leaves it a member.                                   *)
(***************************************************************************)
\* the locations whose actor set holds actor l
Holding(l) == {r \in Rooms : l \in livings[r]}

C40_OneLocation ==
    /\ [](\A l \in Livings : Holding(l) # {} => Holding(l) = {location[l]})
    /\ [][\A l \in Livings, r \in Rooms :
             Move(l, r) =>
                 /\ location'[l] = r
                 /\ Holding(l)' = {r}
                 /\ \A other \in Livings \ {l} : Holding(other)' = Holding(other)]_vars

\* kate was moved to the room and is in its set only; julie was moved to
\* limbo, where she was said to be, and is in its set now
C40_Witness ==
    /\ location["kate"] = "room" /\ Holding("kate") = {"room"}
    /\ location["julie"] = "limbo" /\ Holding("julie") = {"limbo"}
    /\ Holding("dino") = {}
====
